---------------------------- MODULE Spec2Model ----------------------------
(***************************************************************************)
(* A model of the VSTFS extension's TFVC layer (src/src/tfvc.ts): the      *)
(* command executor with its single authentication retry, the workspace    *)
(* binding resolver, the public operations built on them, and the text     *)
(* parsers that turn TF.exe output into records.                           *)
(*                                                                         *)
(* Strings are TLA+ strings handled character by character (Len, SubSeq    *)
(* and \o), so that the regular expressions of the source are computed     *)
(* rather than assumed.  The empty string is "".                           *)
(***************************************************************************)
EXTENDS Integers, Sequences, FiniteSets, TLC

(***************************************************************************)
(* Characters and strings                                                  *)
(***************************************************************************)
UpperAlpha == "ABCDEFGHIJKLMNOPQRSTUVWXYZ"
LowerAlpha == "abcdefghijklmnopqrstuvwxyz"
Digits == "0123456789"

Min(S) == CHOOSE x \in S : \A y \in S : x <= y
Max(S) == CHOOSE x \in S : \A y \in S : y <= x
\* the least and the greatest position of a set of positions, 0 for none
MinOr0(S) == IF S = {} THEN 0 ELSE Min(S)
MaxOr0(S) == IF S = {} THEN 0 ELSE Max(S)

\* s.charAt(i - 1): the i-th character, "" outside the string
At(s, i) == IF i >= 1 /\ i <= Len(s) THEN SubSeq(s, i, i) ELSE ""

\* s.substring(i - 1): the suffix starting at the i-th character
From(s, i) == IF i > Len(s) THEN "" ELSE SubSeq(s, i, Len(s))

\* s.substring(i - 1, j): the characters i..j
Sub(s, i, j) == IF j < i THEN "" ELSE SubSeq(s, i, j)

InStr(c, alphabet) == c # "" /\ \E i \in 1..Len(alphabet) : SubSeq(alphabet, i, i) = c

IsUpper(c) == InStr(c, UpperAlpha)
IsLower(c) == InStr(c, LowerAlpha)
IsLetter(c) == IsUpper(c) \/ IsLower(c)
IsDigit(c) == InStr(c, Digits)
\* \w of a regular expression
IsWordChar(c) == IsLetter(c) \/ IsDigit(c) \/ c = "_"
\* \s of a regular expression
IsSpace(c) == c \in {" ", "\t", "\n", "\r", "\f"}
\* . of a regular expression: anything but a line terminator
IsDot(c) == c # "" /\ c \notin {"\n", "\r"}

LowerChar(c) ==
  IF IsUpper(c)
    THEN LET i == CHOOSE k \in 1..Len(UpperAlpha) : SubSeq(UpperAlpha, k, k) = c
         IN SubSeq(LowerAlpha, i, i)
    ELSE c

RECURSIVE toLowerCase(_)
toLowerCase(s) ==
  IF Len(s) <= 1 THEN LowerChar(s)
  ELSE toLowerCase(SubSeq(s, 1, Len(s) \div 2)) \o toLowerCase(SubSeq(s, Len(s) \div 2 + 1, Len(s)))

UpperChar(c) ==
  IF IsLower(c)
    THEN LET i == CHOOSE k \in 1..Len(LowerAlpha) : SubSeq(LowerAlpha, k, k) = c
         IN SubSeq(UpperAlpha, i, i)
    ELSE c

RECURSIVE toUpperCase(_)
toUpperCase(s) ==
  IF Len(s) <= 1 THEN UpperChar(s)
  ELSE toUpperCase(SubSeq(s, 1, Len(s) \div 2)) \o toUpperCase(SubSeq(s, Len(s) \div 2 + 1, Len(s)))

\* s.startsWith(p), and the same from the i-th character
StartsWithAt(s, i, p) == i + Len(p) - 1 <= Len(s) /\ Sub(s, i, i + Len(p) - 1) = p
StartsWith(s, p) == StartsWithAt(s, 1, p)
EndsWith(s, p) == Len(p) <= Len(s) /\ From(s, Len(s) - Len(p) + 1) = p

\* s.includes(p)
Includes(s, p) == \E i \in 1..(Len(s) + 1) : StartsWithAt(s, i, p)

\* case-insensitive prefix, the /i flag on a literal
StartsWithAtI(s, i, p) ==
  i + Len(p) - 1 <= Len(s) /\ toLowerCase(Sub(s, i, i + Len(p) - 1)) = toLowerCase(p)

\* the length of the longest run of characters satisfying Class from position i
RECURSIVE SpaceRun(_, _)
SpaceRun(s, i) == IF IsSpace(At(s, i)) THEN 1 + SpaceRun(s, i + 1) ELSE 0

\* s.trim(), s.replace(/\s+$/, ""), and the left half
RECURSIVE trimEnd(_)
trimEnd(s) == IF s # "" /\ IsSpace(At(s, Len(s))) THEN trimEnd(Sub(s, 1, Len(s) - 1)) ELSE s

trimStart(s) == From(s, SpaceRun(s, 1) + 1)

trim(s) == trimEnd(trimStart(s))

\* /\s{2,}/.test(s)
HasWideGap(s) == \E i \in 1..Len(s) : IsSpace(At(s, i)) /\ IsSpace(At(s, i + 1))

\* s.split(/\r?\n/)
RECURSIVE SplitFrom(_, _)
SplitFrom(s, start) ==
  LET line(i) == Sub(s, start, IF At(s, i - 1) = "\r" /\ i - 1 >= start THEN i - 2 ELSE i - 1)
      pick(i) == IF i = 0 THEN << From(s, start) >> ELSE << line(i) >> \o SplitFrom(s, i + 1)
  IN pick(MinOr0({i \in start..Len(s) : At(s, i) = "\n"}))

splitLines(s) == SplitFrom(s, 1)

(***************************************************************************)
(* Detection of authentication failures                                    *)
(***************************************************************************)
isAuthError(message) ==
  LET m == toLowerCase(message)
  IN \/ Includes(m, "tf30063")
     \/ Includes(m, "not authorized")
     \/ Includes(m, "unauthorized")
     \/ Includes(m, "401")

(***************************************************************************)
(* Matching helpers shared by the parsers                                  *)
(***************************************************************************)
\* the alternation (add|edit|delete|rename|merge|branch) of the status parsers
PendingActionWords == << "add", "edit", "delete", "rename", "merge", "branch" >>
\* the alternation (edit|add|delete|rename|merge) of the history parser
HistoryActionWords == << "edit", "add", "delete", "rename", "merge" >>

\* The alternative of words that matches at position i ignoring case, as the
\* lower-case word; "" when none does.  No word is a prefix of another.
ActionAt(s, i, words) ==
  LET pick(hits) == IF hits = {} THEN "" ELSE words[Min(hits)]
  IN pick({k \in 1..Len(words) : StartsWithAtI(s, i, words[k])})

\* \b between positions i - 1 and i
WordBoundary(s, i) == IsWordChar(At(s, i - 1)) # IsWordChar(At(s, i))

AllDot(s) == \A i \in 1..Len(s) : IsDot(At(s, i))

\* /^-{n,}/.test(s)
DashRun(s) == CHOOSE n \in 0..Len(s) :
                /\ \A i \in 1..n : At(s, i) = "-"
                /\ At(s, n + 1) # "-"

\* /^(\$\/|[A-Za-z]:\\)/.test(s), and its second half /^[A-Za-z]:\\/
IsLocalAbs(s) == IsLetter(At(s, 1)) /\ At(s, 2) = ":" /\ At(s, 3) = "\\"
IsPathLine(s) == StartsWith(s, "$/") \/ IsLocalAbs(s)

(***************************************************************************)
(* parsePendingDetailed: status /format:detailed                           *)
(***************************************************************************)
\* line.match(/^change:\s*(add|edit|delete|rename|merge|branch)\b/i): the
\* captured kind in lower case, "" for no match
ChangeLineKind(line) ==
  LET kind(j, a) == IF a # "" /\ WordBoundary(line, j + Len(a)) THEN a ELSE ""
      after(j) == kind(j, ActionAt(line, j, PendingActionWords))
  IN IF ~StartsWithAtI(line, 1, "change:") THEN "" ELSE after(8 + SpaceRun(line, 8))

\* a faulty variant: a line of no known shape closes the block
DetailedStepStrict(st, raw) ==
  LET step(line, kind) ==
        IF line = "" THEN st
        ELSE IF IsPathLine(line) THEN [st EXCEPT !.currentPath = line]
        ELSE IF kind # "" /\ st.currentPath # ""
          THEN [items |-> Append(st.items, [action |-> kind, file |-> st.currentPath]),
                currentPath |-> ""]
        ELSE [st EXCEPT !.currentPath = ""]
  IN step(trim(raw), ChangeLineKind(trim(raw)))

\* a faulty variant: a change line leaves the block open
DetailedStepOpen(st, raw) ==
  LET step(line, kind) ==
        IF line = "" THEN st
        ELSE IF IsPathLine(line) THEN [st EXCEPT !.currentPath = line]
        ELSE IF kind # "" /\ st.currentPath # ""
          THEN [st EXCEPT !.items = Append(@, [action |-> kind, file |-> st.currentPath])]
        ELSE IF DashRun(line) >= 3 THEN [st EXCEPT !.currentPath = ""]
        ELSE st
  IN step(trim(raw), ChangeLineKind(trim(raw)))

\* one turn of the loop over the lines; st = [items, currentPath], "" for null
DetailedStep(st, raw) ==
  LET change(line, kind) ==
        IF kind # "" /\ st.currentPath # ""
          THEN [items |-> Append(st.items, [action |-> kind, file |-> st.currentPath]),
                currentPath |-> ""]
        ELSE IF DashRun(line) >= 3 THEN [st EXCEPT !.currentPath = ""]
        ELSE st
      step(line) ==
        IF line = "" THEN st
        ELSE IF IsPathLine(line) THEN [st EXCEPT !.currentPath = line]
        ELSE change(line, ChangeLineKind(line))
  IN step(trim(raw))

RECURSIVE DetailedLoop(_, _)
DetailedLoop(st, lines) ==
  IF lines = << >> THEN st ELSE DetailedLoop(DetailedStep(st, Head(lines)), Tail(lines))

parsePendingDetailed(stdout) ==
  DetailedLoop([items |-> << >>, currentPath |-> ""], splitLines(stdout)).items

(***************************************************************************)
(* parsePending: status /format:brief                                      *)
(***************************************************************************)
\* the hard cap on the rolling row buffer
BufferCap == 500

\* [A-Za-z, ]
IsRowClass(c) == IsLetter(c) \/ c = "," \/ c = " "

RowClassRun(s, i) == Min({j \in i..(Len(s) + 1) : ~IsRowClass(At(s, j))}) - i

\* \s{2,}(.+)$ from position q: the number of blanks the greedy \s{2,} keeps,
\* 0 when the tail does not match
RowTailGap(s, q) ==
  MaxOr0({k \in 2..SpaceRun(s, q) : q + k <= Len(s) /\ AllDot(From(s, q + k))})

\* ([A-Za-z, ]+?)\s{2,}(.+)$ from position p: the length the lazy group
\* settles on, 0 when nothing matches
RowChangeLen(s, p) ==
  MinOr0({len \in 1..RowClassRun(s, p) : RowTailGap(s, p + len) > 0})

\* the blanks the first (greedy) gap keeps after a name ending at i, 0 for none
RowFirstGap(s, i, minGap) ==
  MaxOr0({k \in minGap..SpaceRun(s, i + 1) : RowChangeLen(s, i + k + 1) > 0})

\* the end of the lazy (.+?), 0 when the row does not match
RowNameEnd(s, minGap) ==
  MinOr0({i \in 1..Len(s) : /\ IsSpace(At(s, i + 1))
                            /\ AllDot(Sub(s, 1, i))
                            /\ RowFirstGap(s, i, minGap) > 0})

\* /^(.+?)\s{minGap,}([A-Za-z, ]+?)\s{2,}(.+)$/ with its three groups
RowMatch(s, minGap) ==
  LET groups(i, p, q) ==
        [ok |-> TRUE, name |-> Sub(s, 1, i), change |-> Sub(s, p, q - 1),
         local |-> From(s, q + RowTailGap(s, q))]
      change(i, p) == groups(i, p, p + RowChangeLen(s, p))
      gap(i) ==
        IF i = 0 THEN [ok |-> FALSE, name |-> "", change |-> "", local |-> ""]
        ELSE change(i, i + RowFirstGap(s, i, minGap) + 1)
  IN gap(RowNameEnd(s, minGap))

\* a faulty variant: the change column is never read
FindActionNone(s) == ""

\* s.match(/\b(add|edit|delete|rename|merge|branch)\b/i)[1] in lower case, "" for none
FindAction(s) ==
  LET whole(i, a) == a # "" /\ WordBoundary(s, i) /\ WordBoundary(s, i + Len(a))
      pick(hits) == IF hits = {} THEN "" ELSE ActionAt(s, Min(hits), PendingActionWords)
  IN pick({i \in 1..Len(s) : whole(i, ActionAt(s, i, PendingActionWords))})

\* s.replace(/\\/g, "/")
RECURSIVE backToForward(_)
backToForward(s) ==
  IF Len(s) <= 1 THEN (IF s = "\\" THEN "/" ELSE s)
  ELSE backToForward(SubSeq(s, 1, Len(s) \div 2)) \o backToForward(SubSeq(s, Len(s) \div 2 + 1, Len(s)))

NoRow == [ok |-> FALSE, action |-> "", file |-> ""]

\* \s*(action)\s*$ from position q: the action in lower case, "" for no match
ActionToEnd(s, q) ==
  LET ends(q2, a) ==
        IF a # "" /\ q2 + Len(a) + SpaceRun(s, q2 + Len(a)) = Len(s) + 1 THEN a ELSE ""
      skip(q2) == ends(q2, ActionAt(s, q2, PendingActionWords))
  IN skip(q + SpaceRun(s, q))

\* /^(add|edit|delete|rename|merge|branch)\s+(.+)$/i
RowAltAction(t) ==
  LET row(a, r, rest) ==
        IF a # "" /\ r >= 1 /\ rest # "" /\ AllDot(rest)
          THEN [ok |-> TRUE, action |-> a, file |-> trim(rest)]
          ELSE NoRow
      gap(a, r) == row(a, r, From(t, 1 + Len(a) + r))
      word(a) == gap(a, SpaceRun(t, 1 + Len(a)))
  IN word(ActionAt(t, 1, PendingActionWords))

\* /^(\$\/.*?);\s*(add|edit|delete|rename|merge|branch)\s*$/i
RowAltServer(t) ==
  LET row(j) == [ok |-> TRUE, action |-> ActionToEnd(t, j + 1), file |-> trim(Sub(t, 1, j - 1))]
      pick(fits) == IF StartsWith(t, "$/") /\ fits # {} THEN row(Min(fits)) ELSE NoRow
  IN pick({j \in 3..Len(t) : /\ At(t, j) = ";"
                             /\ AllDot(Sub(t, 3, j - 1))
                             /\ row(j).action # ""})

\* /^(.:\\[^-]+?)\s*-\s+(add|edit|delete|rename|merge|branch)\s*$/i
RowAltLocalTail(t, q) ==
  LET gap(d, r) == IF At(t, d) = "-" /\ r >= 1 THEN ActionToEnd(t, d + 1 + r) ELSE ""
      dash(d) == gap(d, SpaceRun(t, d + 1))
  IN dash(q + SpaceRun(t, q))

RowAltLocal(t) ==
  LET row(j) == [ok |-> TRUE, action |-> RowAltLocalTail(t, j + 1), file |-> trim(Sub(t, 1, j))]
      pick(fits) ==
        IF IsDot(At(t, 1)) /\ At(t, 2) = ":" /\ At(t, 3) = "\\" /\ fits # {}
          THEN row(Min(fits)) ELSE NoRow
  IN pick({j \in 4..Len(t) : /\ \A i \in 4..j : At(t, i) # "-"
                             /\ row(j).action # ""})

\* the closure tryParseRow; currentServerFolder is "" for null
tryParseRow(row, currentServerFolder) ==
  LET built(nameCol, actionMatch, localCol) ==
        [ok |-> TRUE,
         action |-> IF actionMatch # "" THEN actionMatch ELSE "edit",
         file |-> IF IsLocalAbs(localCol) THEN localCol
                  ELSE IF currentServerFolder # ""
                    THEN backToForward(currentServerFolder) \o "/" \o nameCol
                  ELSE nameCol]
      cols(c) == built(c[1], FindAction(c[2]), c[3])
      second(trimmed, a) == IF a.ok THEN a ELSE RowAltLocal(trimmed)
      first(trimmed, a) == IF a.ok THEN a ELSE second(trimmed, RowAltServer(trimmed))
      pick(trimmed, table) ==
        IF table.ok
          THEN cols([x \in 1..3 |-> trim(<< table.name, table.change, table.local >>[x])])
          ELSE first(trimmed, RowAltAction(trimmed))
      widen(trimmed, tables) == pick(trimmed, IF tables[2].ok THEN tables[2] ELSE tables[1])
  IN widen(trim(row), [minGap \in 1..2 |-> RowMatch(trim(row), minGap)])

\* /^File\s+name\s+Change\s+Local\s+path/i
RECURSIVE WordsSpacedAt(_, _, _)
WordsSpacedAt(s, i, words) ==
  IF ~StartsWithAtI(s, i, Head(words)) THEN FALSE
  ELSE IF Len(words) = 1 THEN TRUE
  ELSE LET j == i + Len(Head(words))
       IN SpaceRun(s, j) >= 1 /\ WordsSpacedAt(s, j + SpaceRun(s, j), Tail(words))

IsTableHeader(line) == WordsSpacedAt(line, 1, << "File", "name", "Change", "Local", "path" >>)

\* /^There are no pending changes\.?$/i
IsNoChangesBanner(line) ==
  toLowerCase(line) \in {"there are no pending changes", "there are no pending changes."}

\* /^(Collection|Workspace|User):/i
IsContextBanner(line) ==
  \E w \in {"Collection:", "Workspace:", "User:"} : StartsWithAtI(line, 1, w)

\* /\.(cs|asset|mat|png|jpg|prefab|meta)$/i.test(line.replace(/\.\.\.$/, ""))
NameExtensions == {".cs", ".asset", ".mat", ".png", ".jpg", ".prefab", ".meta"}
IsNameFragment(line) ==
  LET cut == IF EndsWith(line, "...") THEN Sub(line, 1, Len(line) - 3) ELSE line
  IN \E e \in NameExtensions : EndsWith(toLowerCase(cut), e)

\* line.match(/\b(add|edit|delete|rename|merge|branch)\b\s+([A-Za-z]:\\.+)$/i)
PairPathAt(line, i) ==
  LET path(a, r, p) ==
        IF /\ a # "" /\ WordBoundary(line, i) /\ r >= 1
           /\ IsLocalAbs(From(line, p)) /\ From(line, p + 3) # "" /\ AllDot(From(line, p))
          THEN p ELSE 0
      gap(a, r) == path(a, r, i + Len(a) + r)
      word(a) == gap(a, SpaceRun(line, i + Len(a)))
  IN word(ActionAt(line, i, PendingActionWords))

FindPair(line) ==
  LET pair(i) == [ok |-> TRUE, action |-> ActionAt(line, i, PendingActionWords),
                  file |-> trim(From(line, PairPathAt(line, i)))]
      pick(i) == IF i = 0 THEN NoRow ELSE pair(i)
  IN pick(MinOr0({i \in 1..Len(line) : PairPathAt(line, i) > 0}))

\* a faulty variant: the buffer is never found too long
overCapNever(joined) == FALSE

\* buffer.length > 500
overCap(joined) == Len(joined) > BufferCap

\* one turn of the loop over the lines;
\* st = [items, currentServerFolder, buffer, pendingNameFragment], "" for null
PendingStep(st, raw) ==
  LET emit(row) == [st EXCEPT !.items = Append(@, [action |-> row.action, file |-> row.file]),
                              !.buffer = "", !.pendingNameFragment = ""]
      rows(line, joined, parsed) ==
        IF parsed[line].ok THEN emit(parsed[line])
        ELSE IF parsed[joined].ok THEN emit(parsed[joined])
        ELSE IF overCap(joined)
          THEN [st EXCEPT !.buffer = "", !.pendingNameFragment = ""]
        ELSE [st EXCEPT !.buffer = joined]
      buffered(line, joined) ==
        rows(line, joined, [row \in {line, joined} |-> tryParseRow(row, st.currentServerFolder)])
      paired(line, pair) ==
        IF pair.ok
          THEN [st EXCEPT !.items = Append(@, [action |-> pair.action, file |-> pair.file]),
                          !.pendingNameFragment = ""]
          ELSE buffered(line, IF st.buffer # "" THEN st.buffer \o " " \o line ELSE line)
      step(line) ==
        IF DashRun(line) >= 3 THEN st
        ELSE IF IsTableHeader(line) THEN st
        ELSE IF IsNoChangesBanner(line) THEN st
        ELSE IF IsContextBanner(line) THEN st
        ELSE IF StartsWith(line, "$/") /\ ~HasWideGap(line)
          THEN [st EXCEPT !.currentServerFolder = line, !.buffer = "", !.pendingNameFragment = ""]
        ELSE IF ~HasWideGap(line) /\ IsNameFragment(line)
          THEN [st EXCEPT !.pendingNameFragment = line]
        ELSE paired(line, IF st.pendingNameFragment # "" THEN FindPair(line) ELSE NoRow)
  IN step(trim(raw))

RECURSIVE PendingLoop(_, _)
PendingLoop(st, lines) ==
  IF lines = << >> THEN st ELSE PendingLoop(PendingStep(st, Head(lines)), Tail(lines))

\* the lines kept by .map(strip trailing blanks).filter(non-blank)
RECURSIVE KeptLines(_)
KeptLines(rawLines) ==
  IF rawLines = << >> THEN << >>
  ELSE (IF trim(Head(rawLines)) # "" THEN << trimEnd(Head(rawLines)) >> ELSE << >>)
       \o KeptLines(Tail(rawLines))

parsePending(stdout) ==
  PendingLoop([items |-> << >>, currentServerFolder |-> "", buffer |-> "",
               pendingNameFragment |-> ""],
              KeptLines(splitLines(stdout))).items

(***************************************************************************)
(* parseHistory: history /format:detailed                                  *)
(***************************************************************************)
\* ^ and $ under the m flag: next to a line terminator or at an end
LineStart(s, i) == i = 1 \/ At(s, i - 1) \in {"\n", "\r"}
LineEnd(s, i) == i = Len(s) + 1 \/ At(s, i) \in {"\n", "\r"}

\* \s*$ under the m flag from position e: where the greedy match ends, 0 for none
BlanksToLineEnd(s, e) ==
  MaxOr0({x \in e..(e + SpaceRun(s, e)) : LineEnd(s, x)})

\* ^\s*label (ignoring case) from the line start i: the position after the
\* label, 0 for no match
LabelAt(s, i, label) ==
  LET after(j) == IF LineStart(s, i) /\ StartsWithAtI(s, j, label) THEN j + Len(label) ELSE 0
  IN after(i + SpaceRun(s, i))

\* the first line start from which ^\s*label matches, 0 for none
FirstLabel(s, label) == MinOr0({i \in 1..Len(s) : LabelAt(s, i, label) > 0})

\* /^-{5,}\s*$/m from position i: where the separator ends, 0 for no match
RuleEnd(s, i) ==
  LET rule(d) == IF LineStart(s, i) /\ d >= 5 THEN BlanksToLineEnd(s, i + d) ELSE 0
  IN rule(DashRun(From(s, i)))

\* stdout.split(/^-{5,}\s*$/m)
RECURSIVE SplitByRule(_, _)
SplitByRule(s, from) ==
  LET pick(i) ==
        IF i = 0 THEN << From(s, from) >>
        ELSE << Sub(s, from, i - 1) >> \o SplitByRule(s, RuleEnd(s, i))
  IN pick(MinOr0({i \in from..Len(s) : RuleEnd(s, i) > 0}))

\* /^\s*Items:\s*$/mi from position i: where the separator ends, 0 for no match
ItemsEnd(s, i) ==
  LET blanks(e) == IF e > 0 THEN BlanksToLineEnd(s, e) ELSE 0
  IN blanks(LabelAt(s, i, "Items:"))

\* the positions just after each match of the separator, in order
ItemsEnds(b) == {x \in 1..(Len(b) + 1) : \E i \in 1..Len(b) : ItemsEnd(b, i) = x}

\* b.split(/^\s*Items:\s*$/mi)[1] || ""
filesPartOf(b) ==
  LET starts(seps) == {i \in 1..Len(b) : ItemsEnd(b, i) \in seps}
      part(x, next) == IF next = 0 THEN From(b, x) ELSE Sub(b, x, next - 1)
      pick(seps, from) ==
        IF seps = {} THEN ""
        ELSE part(Min(seps), MinOr0({i \in from : i >= Min(seps)}))
      both(seps) == pick(seps, starts(seps))
  IN both(ItemsEnds(b))

\* the length of the run of digits, or of non-terminators, from position i
DigitRun(s, i) == Min({j \in i..(Len(s) + 1) : ~IsDigit(At(s, j))}) - i
DotRun(s, i) == Min({j \in i..(Len(s) + 1) : ~IsDot(At(s, j))}) - i

DigitValue(c) == CHOOSE d \in 0..9 : SubSeq(Digits, d + 1, d + 1) = c

\* Number(digits)
RECURSIVE StrToNat(_)
StrToNat(s) ==
  IF s = "" THEN 0
  ELSE 10 * StrToNat(Sub(s, 1, Len(s) - 1)) + DigitValue(At(s, Len(s)))

\* a faulty variant: every block is taken to carry a changeset id
changesetDigitsDefault(b) == "0"

\* b.match(/^\s*Changeset:\s*(\d+)/mi)?.[1], "" for no match
changesetDigits(b) ==
  LET value(e) == e + SpaceRun(b, e)
      digits(v) == Sub(b, v, v + DigitRun(b, v) - 1)
      found(e) == e > 0 /\ DigitRun(b, value(e)) >= 1
      pick(i) == IF i = 0 THEN "" ELSE digits(value(LabelAt(b, i, "Changeset:")))
  IN pick(MinOr0({i \in 1..Len(b) : found(LabelAt(b, i, "Changeset:"))}))

\* b.match(/^\s*label\s*(.+)$/mi)?.[1] || "" for User: and Date:
labelValue(b, label) ==
  LET value(e) == e + SpaceRun(b, e)
      text(v) == Sub(b, v, v + DotRun(b, v) - 1)
      found(e) == e > 0 /\ DotRun(b, value(e)) >= 1
      pick(i) == IF i = 0 THEN "" ELSE text(value(LabelAt(b, i, label)))
  IN pick(MinOr0({i \in 1..Len(b) : found(LabelAt(b, i, label))}))

\* b.match(/^\s*Comment:\s*([\s\S]*?)^\s*Items:/mi)?.[1] || ""
commentText(b) ==
  LET upTo(v, stop) == IF stop = 0 THEN "" ELSE Sub(b, v, stop - 1)
      text(v) == upTo(v, MinOr0({z \in v..Len(b) : LabelAt(b, z, "Items:") > 0}))
      value(e) == text(e + SpaceRun(b, e))
      pick(i) == IF i = 0 THEN "" ELSE value(LabelAt(b, i, "Comment:"))
  IN pick(FirstLabel(b, "Comment:"))

\* line.match(/^\s*(edit|add|delete|rename|merge)\s+(.*)$/i) as a sequence of
\* zero or one {change, path}; the change keeps the case it was written in
fileOfLine(line) ==
  LET file(j, a, r, rest) ==
        IF a # "" /\ r >= 1 /\ AllDot(rest)
          THEN << [change |-> Sub(line, j, j + Len(a) - 1), path |-> trim(rest)] >>
          ELSE << >>
      gap(j, a, r) == file(j, a, r, From(line, j + Len(a) + r))
      word(j, a) == gap(j, a, SpaceRun(line, j + Len(a)))
      start(j) == word(j, ActionAt(line, j, HistoryActionWords))
  IN start(1 + SpaceRun(line, 1))

RECURSIVE filesOf(_)
filesOf(lines) ==
  IF lines = << >> THEN << >> ELSE fileOfLine(Head(lines)) \o filesOf(Tail(lines))

\* the body of the loop over the blocks: zero or one history item.  The date
\* is kept as the text handed to new Date().
historyOfBlock(b) ==
  LET item(digits, labels) ==
        IF digits = "" THEN << >>
        ELSE << [changesetId |-> StrToNat(digits),
                 author |-> labels["User:"],
                 date |-> labels["Date:"],
                 comment |-> trim(commentText(b)),
                 files |-> filesOf(splitLines(filesPartOf(b)))] >>
  IN item(changesetDigits(b), [label \in {"User:", "Date:"} |-> trim(labelValue(b, label))])

RECURSIVE historyOfBlocks(_)
historyOfBlocks(pieces) ==
  LET block(b) == IF b = "" THEN << >> ELSE historyOfBlock(b)
  IN IF pieces = << >> THEN << >>
     ELSE block(trim(Head(pieces))) \o historyOfBlocks(Tail(pieces))

parseHistory(stdout) == historyOfBlocks(SplitByRule(stdout, 1))

(***************************************************************************)
(* parseBranches                                                           *)
(***************************************************************************)
RECURSIVE branchesOf(_)
branchesOf(lines) ==
  LET l == trim(Head(lines))
      keep == /\ l # ""
              /\ ~Includes(toLowerCase(l), "no items found")
              /\ toLowerCase(l) # "branches:"
  IN IF lines = << >> THEN << >>
     ELSE (IF keep THEN << l >> ELSE << >>) \o branchesOf(Tail(lines))

parseBranches(stdout) == branchesOf(splitLines(stdout))

(***************************************************************************)
(* Paths                                                                   *)
(***************************************************************************)
\* s.replace(/\//g, "\\")
RECURSIVE forwardToBack(_)
forwardToBack(s) ==
  IF Len(s) <= 1 THEN (IF s = "/" THEN "\\" ELSE s)
  ELSE forwardToBack(SubSeq(s, 1, Len(s) \div 2)) \o forwardToBack(SubSeq(s, Len(s) \div 2 + 1, Len(s)))

IsSep(c) == c \in {"/", "\\"}

\* the segments of s between separators, empty ones included
RECURSIVE SegmentsFrom(_, _)
SegmentsFrom(s, start) ==
  LET pick(i) ==
        IF i = 0 THEN << From(s, start) >>
        ELSE << Sub(s, start, i - 1) >> \o SegmentsFrom(s, i + 1)
  IN pick(MinOr0({i \in start..Len(s) : IsSep(At(s, i))}))

\* normalisation of the segments: "" and "." dropped, ".." pops (never above the root)
RECURSIVE Resolve(_, _)
Resolve(done, todo) ==
  IF todo = << >> THEN done
  ELSE IF Head(todo) \in {"", "."} THEN Resolve(done, Tail(todo))
  ELSE IF Head(todo) = ".."
    THEN Resolve(IF done = << >> THEN done ELSE SubSeq(done, 1, Len(done) - 1), Tail(todo))
  ELSE Resolve(Append(done, Head(todo)), Tail(todo))

RECURSIVE JoinWith(_, _)
JoinWith(segs, sep) ==
  IF segs = << >> THEN ""
  ELSE IF Len(segs) = 1 THEN segs[1]
  ELSE segs[1] \o sep \o JoinWith(Tail(segs), sep)

\* path.join(dir, rel) of node:path on Windows, for a drive-rooted dir ("C:\...")
pathJoin(dir, rel) ==
  LET joined == IF rel = "" THEN dir ELSE dir \o "\\" \o rel
      segs == Resolve(<< >>, SegmentsFrom(joined, 4))
      tail == JoinWith(segs, "\\")
  IN Sub(joined, 1, 2) \o "\\" \o tail
     \o (IF tail # "" /\ IsSep(At(joined, Len(joined))) THEN "\\" ELSE "")

\* s.replace(/;C\d+$/i, "")
stripChangeset(s) ==
  LET pick(i) == IF i = 0 THEN s ELSE Sub(s, 1, i - 1)
  IN pick(MinOr0({i \in 1..Len(s) : /\ At(s, i) = ";"
                                    /\ At(s, i + 1) \in {"C", "c"}
                                    /\ DigitRun(s, i + 2) >= 1
                                    /\ i + 2 + DigitRun(s, i + 2) = Len(s) + 1}))

\* TFVC.toLocalPath with the object's cwd and config.serverPath ("" when unset)
toLocalPathIn(cwd, serverPath, serverOrLocalPath) ==
  LET cleaned == stripChangeset(serverOrLocalPath)
      below == From(cleaned, Len(serverPath) + 1)
      rel == backToForward(IF StartsWith(below, "/") THEN From(below, 2) ELSE below)
  IN IF IsLocalAbs(cleaned) THEN cleaned
     ELSE IF serverPath # "" /\ StartsWith(cleaned, serverPath)
       THEN forwardToBack(pathJoin(cwd, rel))
     ELSE IF StartsWith(cleaned, "$/")
       THEN forwardToBack(pathJoin(cwd, backToForward(From(cleaned, 3))))
     ELSE forwardToBack(pathJoin(cwd, cleaned))

(***************************************************************************)
(* The TFVC object: construction arguments and sampled environment         *)
(***************************************************************************)
\* constructor arguments: the TF.exe path and the workspace folder
tfPath == "TF.exe"
cwd == "C:\\ws"

\* VSTFSConfig values the object may be constructed with ("" for a missing one)
ServerUrls == {"", "https://tfs.corp/tfs/Main"}
Workspaces == {"", "WS1"}
ServerPaths == {"$/Proj"}
Configs == [serverUrl : ServerUrls, workspace : Workspaces, serverPath : ServerPaths]

\* String(n) for a natural number
RECURSIVE NatToStr(_)
NatToStr(n) ==
  IF n < 10 THEN Sub(Digits, n + 1, n + 1)
  ELSE NatToStr(n \div 10) \o Sub(Digits, (n % 10) + 1, (n % 10) + 1)

\* position of the first occurrence of needle in s at or after from (0 when none)
IndexOf(s, needle, from) == MinOr0({i \in from..Len(s) : StartsWithAt(s, i, needle)})

\* the first path segment of a URL pathname ("" when none)
firstSegment(pathname) ==
  LET segs == Resolve(<< >>, SegmentsFrom(pathname, 1))
  IN IF segs = << >> THEN "" ELSE segs[1]

\* the value getCollectionUrl builds from the parts of new URL(raw)
collectionUrlOf(scheme, host, hostname, pathname, org) ==
  IF hostname = "dev.azure.com" /\ org # "" THEN scheme \o "://" \o host \o "/" \o org
  ELSE IF EndsWith(hostname, ".visualstudio.com") THEN scheme \o "://" \o host
  ELSE scheme \o "://" \o host \o (IF pathname = "/" THEN "" ELSE pathname)

\* host[:port] -> the host name in lower case
hostnameOf(host, colon) == toLowerCase(IF colon = 0 THEN host ELSE Sub(host, 1, colon - 1))

\* TFVC.getCollectionUrl for a URL of the shape scheme://host[:port][/path];
\* anything else takes the catch branch (the raw text less one trailing slash)
getCollectionUrl(cfg) ==
  LET split(scheme, host, pathname) ==
        collectionUrlOf(scheme, host, hostnameOf(host, IndexOf(host, ":", 1)), pathname,
                        firstSegment(pathname))
      cut(scheme, rest, slash) ==
        split(scheme, IF slash = 0 THEN rest ELSE Sub(rest, 1, slash - 1),
              IF slash = 0 THEN "/" ELSE From(rest, slash))
      parse(raw, sch) ==
        IF sch = 0 THEN (IF EndsWith(raw, "/") THEN Sub(raw, 1, Len(raw) - 1) ELSE raw)
        ELSE cut(Sub(raw, 1, sch - 1), From(raw, sch + 3), IndexOf(From(raw, sch + 3), "/", 1))
      start(raw) == parse(raw, IndexOf(raw, "://", 1))
  IN start(trim(cfg.serverUrl))

\* the command verbs to which run() appends /collection
shouldAddCollection(command) ==
  command \in {"workspaces", "workspace", "configure", "login", "logout", "permission",
               "status", "history", "changeset"}

\* the argument list run() passes to the executor
fullArgsOf(cfg, args) ==
  IF cfg.serverUrl # "" /\ shouldAddCollection(args[1])
    THEN Append(args, "/collection:" \o getCollectionUrl(cfg))
    ELSE args

(***************************************************************************)
(* Child processes: what a TF.exe run can hand back                        *)
(***************************************************************************)
NoChild == [args |-> << >>, visible |-> FALSE]

\* exit kinds of a child: ok, or an error with the given stdout and stderr
FailedExits ==
  { [ok |-> FALSE, stdout |-> "", stderr |-> "TF10139: check-in rejected"],
    [ok |-> FALSE, stdout |-> "", stderr |-> "TF30063: You are not authorized to access the server."],
    [ok |-> FALSE, stdout |-> "HTTP 401 Unauthorized", stderr |-> ""],
    [ok |-> FALSE, stdout |-> "Access denied (401)", stderr |-> "TF400324: service unavailable"],
    [ok |-> FALSE, stdout |-> "", stderr |-> ""] }

StatusDetailedText == "$/Proj/a.cs;C7\n  Change: edit\n$/Proj/n.cs\n  Change: branch\n"
StatusBriefText ==
  "File name Change Local path\n--------- ------ ----------\n$/Proj\na.cs      edit   C:\\ws\\a.cs\nb.cs      lock   C:\\ws\\b.cs\n"
StatusTexts == {"", "There are no pending changes.", StatusDetailedText, StatusBriefText}

WorkfoldTexts ==
  {"", "Workspace: WS1\n $/Proj: C:\\ws", "Workspace: WS1\n $/Lib: D:\\lib",
   "Workspace: Other\n $/Lib: D:\\lib"}

HistoryBlock7 == "Changeset: 7\nUser: alice\nDate: Monday\n\nComment:\n  first\n\nItems:\n  edit $/Proj/a.cs\n"
HistoryBlock8 == "Changeset: 8\nUser: bob\nDate: Tuesday\n\nComment:\n  second\n\nItems:\n  add $/Proj/b.cs\n"
HistoryRule == "-------------------------------------------------------------------------------\n"
HistoryBlock9 == "Changeset: 9\nUser: bob\nDate: Friday\n\nComment:\n  third\n\nItems:\n  edit $/Proj/a.cs\n"
HistoryTexts ==
  {"", HistoryBlock7, HistoryBlock8, HistoryBlock8 \o HistoryRule \o HistoryBlock7,
   HistoryBlock9 \o HistoryRule \o HistoryBlock7}

BranchesTexts == {"", "$/Proj\n$/Proj-dev\n"}

\* the standard output of a successful run of the given arguments
StdoutsOf(args) ==
  IF args[1] = "status" THEN StatusTexts
  ELSE IF args = << "workfold" >> THEN WorkfoldTexts
  ELSE IF args[1] = "history" THEN HistoryTexts
  ELSE IF args[1] = "branches" THEN BranchesTexts
  ELSE {""}

\* how the sign-in window can end; signIn() ignores which
SignInExitKinds ==
  { [ok |-> TRUE, stdout |-> "", stderr |-> ""],
    [ok |-> FALSE, stdout |-> "", stderr |-> "TF30063: You are not authorized to access the server."] }

ExitsOf(args) ==
  {[ok |-> TRUE, stdout |-> out, stderr |-> ""] : out \in StdoutsOf(args)} \cup FailedExits

\* String(err) of the error execFile reports for a failed child
errorText(args, exit) ==
  "Error: Command failed: " \o tfPath \o " " \o JoinWith(args, " ") \o "\n" \o exit.stderr

\* the message execOnce rejects with: stderr || stdout || String(err)
failureMessage(args, exit) ==
  IF exit.stderr # "" THEN exit.stderr
  ELSE IF exit.stdout # "" THEN exit.stdout
  ELSE errorText(args, exit)

(***************************************************************************)
(* State                                                                   *)
(***************************************************************************)
\* the call whose history is recorded, and the calls that only run beside others
NumProcs == 2
MaxSignIns == 2
Procs == 0..NumProcs
Observed == CHOOSE p \in Procs : \A q \in Procs : p <= q

VARIABLES
  config,   \* the VSTFSConfig the TFVC object was constructed with
  proc,     \* per call in flight: where its handler, operation, resolver and executor stand
  parse     \* a call of a parser or of toLocalPath taken alone: its input, locals and result

vars == << config, proc, parse >>

NoCall == [target |-> "", dest |-> "", id |-> 0, max |-> 0, comment |-> "", files |-> << >>]
NoExec ==
  [args |-> << >>, trace |-> << >>, launches |-> << >>, exits |-> << >>, ok |-> FALSE,
   message |-> "", signIn |-> "none"]
NoResult == [status |-> "none", value |-> << >>, error |-> ""]

\* what is remembered about the observed call
NoHistory ==
  [ exec |-> NoExec,         \* the executor call in progress
    lastExec |-> NoExec,     \* the executor call that settled in the last step of the call
    calls |-> << >>,         \* the executor calls of the operation: arguments, caller, status
    signIns |-> 0,           \* sign-in windows opened during the operation (counted up to MaxSignIns)
    qlog |-> << >>,          \* pendingChanges: the variants tried and how each ended
    resolved |-> "notrun",   \* how the workspace resolver of the current run() ended
    result |-> NoResult,     \* what the operation returned or threw
    op |-> "none",           \* the operation and its arguments
    call |-> NoCall ]

Idle ==
  [ handler |-> "none", hstep |-> "none", hdata |-> << >>,
    op |-> "none", call |-> NoCall, step |-> "none",
    res |-> "none", runArgs |-> << >>,
    ex |-> "none", args |-> << >>, child |-> NoChild,
    h |-> NoHistory ]

\* no parser call is being followed
NoParse ==
  [fn |-> "none", family |-> "none", src |-> << >>, sep |-> "", todo |-> << >>,
   st |-> [items |-> << >>], done |-> FALSE, left |-> [items |-> << >>], seen |-> << >>]

Init ==
  /\ config \in Configs
  /\ proc = [p \in Procs |-> Idle]
  /\ parse = NoParse

(***************************************************************************)
(* Command executor: execOnce, execVisibleOnce, signIn, execWithAuthRetry  *)
(***************************************************************************)
execOnce(args) == [args |-> args, visible |-> FALSE]
execVisibleOnce(args) == [args |-> args, visible |-> TRUE]
signInArgs == << "workspaces", "/collection:" \o getCollectionUrl(config) >>

\* execWithAuthRetry(args) up to its first await: the first attempt is launched
startExec(s, res, args) ==
  [s EXCEPT !.res = res, !.ex = "Running", !.args = args, !.child = execOnce(args),
            !.h.exec = [NoExec EXCEPT !.args = args, !.trace = << "Running" >>,
                                      !.launches = << execOnce(args) >>],
            !.h.calls = Append(@, [args |-> args,
                                   by |-> IF res = "none" THEN "own" ELSE "resolver",
                                   status |-> "running"])]

\* the executor call settles: its record is closed and the caller's value is built
settle(s, exit, final) ==
  LET ok == exit.ok
      msg == IF ok THEN "" ELSE failureMessage(s.args, exit)
      done == [s.h.exec EXCEPT !.trace = Append(@, final), !.exits = Append(@, exit),
                               !.ok = ok, !.message = msg]
  IN [s EXCEPT !.ex = "none", !.child = NoChild,
               !.h.exec = NoExec, !.h.lastExec = done,
               !.h.calls[Len(s.h.calls)].status = IF ok THEN "ok" ELSE "fail"]

returned(exit, args) ==
  [ok |-> exit.ok, stdout |-> exit.stdout, stderr |-> exit.stderr,
   message |-> IF exit.ok THEN "" ELSE failureMessage(args, exit)]

\* the catch of execWithAuthRetry: sign in and retry, or rethrow
wantsSignIn(args, exit) ==
  isAuthError(failureMessage(args, exit)) /\ config.serverUrl # ""

\* signIn(): the visible window is launched
startSignIn(s, exit) ==
  [s EXCEPT !.ex = "Reauthenticating", !.child = execVisibleOnce(signInArgs),
            !.h.exec.trace = @ \o << "AuthFailed", "Reauthenticating" >>,
            !.h.exec.exits = Append(@, exit),
            !.h.exec.launches = Append(@, execVisibleOnce(signInArgs)),
            !.h.signIns = IF @ < MaxSignIns THEN @ + 1 ELSE @]

\* the window closed (its outcome is only logged): the one retry is launched
startRetry(s, exit) ==
  [s EXCEPT !.ex = "Retrying", !.child = execOnce(s.args),
            !.h.exec.signIn = IF exit.ok THEN "ok" ELSE "fail",
            !.h.exec.trace = Append(@, "Retrying"),
            !.h.exec.launches = Append(@, execOnce(s.args))]

(***************************************************************************)
(* run, runBasic and the workspace resolver (ensureWorkspaceConfigured)    *)
(***************************************************************************)
DefaultServerPath == "$/Era/Prototypes/Overpowered"
serverPathOrDefault == IF config.serverPath # "" THEN config.serverPath ELSE DefaultServerPath

mapArgs ==
  << "workfold", "/map", serverPathOrDefault, cwd, "/workspace:" \o config.workspace,
     "/collection:" \o getCollectionUrl(config) >>
newArgs ==
  << "workspace", "/new", config.workspace, "/collection:" \o getCollectionUrl(config),
     "/location:server" >>

\* runBasic(args): straight to the executor
runBasic(s, args) == startExec(s, "none", args)

\* the resolver returns at once unless both serverUrl and workspace are configured
resolverSkips == config.serverUrl = "" \/ config.workspace = ""

\* a faulty run: the command is launched without the resolver
runUnresolved(s, args) ==
  startExec([s EXCEPT !.h.resolved = "skipped"], "none", fullArgsOf(config, args))

\* run(args) up to its first child: the resolver's mapping query, or the command itself
run(s, args) ==
  LET t == [s EXCEPT !.runArgs = IF resolverSkips THEN @ ELSE args,
                     !.h.resolved = IF resolverSkips THEN "skipped" ELSE "running"]
  IN startExec(t, IF resolverSkips THEN "none" ELSE "workfold",
               IF resolverSkips THEN fullArgsOf(config, args) ELSE << "workfold" >>)

\* a faulty variant: the error of the failing step is passed on as it is
resolverErrorBare(r) == [ok |-> FALSE, stdout |-> "", stderr |-> "", message |-> r.message]

\* the error run() rejects with when the resolver gave up
resolverError(r) ==
  [ok |-> FALSE, stdout |-> "", stderr |-> "",
   message |-> "Cannot configure TFVC workspace: Error: " \o r.message]

(***************************************************************************)
(* Public operations                                                       *)
(***************************************************************************)
item == IF config.serverPath # "" THEN config.serverPath ELSE cwd

\* a faulty order: the workspace-qualified query is tried before the plain brief one
statusArgsSwapped(variant) ==
  CASE variant = 0 -> << "status", "/recursive", "/format:detailed" >>
    [] variant = 2 -> << "status", "/recursive", "/format:brief" >>
    [] variant = 1 -> << "status", "/workspace:" \o config.workspace, "/recursive",
                         "/format:brief" >>
    [] OTHER -> << "status", ".", "/recursive", "/format:brief", "/noprompt" >>

statusArgs(variant) ==
  CASE variant = 0 -> << "status", "/recursive", "/format:detailed" >>
    [] variant = 1 -> << "status", "/recursive", "/format:brief" >>
    [] variant = 2 -> << "status", "/workspace:" \o config.workspace, "/recursive",
                         "/format:brief" >>
    [] OTHER -> << "status", ".", "/recursive", "/format:brief", "/noprompt" >>

\* a faulty variant: the file subset is ignored
checkinArgsAll(call) ==
  << "checkin", ".", "/recursive", "/comment:" \o call.comment, "/noprompt" >>

checkinArgs(call) ==
  IF Len(call.files) > 0
    THEN << "checkin" >> \o call.files \o << "/comment:" \o call.comment, "/noprompt" >>
    ELSE << "checkin", ".", "/recursive", "/comment:" \o call.comment, "/noprompt" >>

undoArgs(call) ==
  IF Len(call.files) > 0
    THEN << "undo" >> \o call.files \o << "/noprompt" >>
    ELSE << "undo", ".", "/recursive", "/noprompt" >>

historyArgs(call) ==
  << "history", IF call.target = "." THEN item ELSE call.target, "/recursive",
     "/format:detailed", "/stopafter:" \o NatToStr(call.max), "/noprompt" >>

changesetArgs(call) ==
  << "history", item, "/recursive", "/format:detailed", "/noprompt",
     "/version:C" \o NatToStr(call.id) \o "~C" \o NatToStr(call.id) >>

previousArgs(call) ==
  << "history", call.target, "/format:detailed", "/stopafter:2",
     "/version:C1~C" \o NatToStr(call.id), "/noprompt" >>

viewArgs(call) == << "view", call.target \o ";C" \o NatToStr(call.id), "/noprompt" >>

\* path.basename(p) of node:path on Windows: what follows the last separator
basename(p) == From(p, MaxOr0({i \in 1..Len(p) : IsSep(At(p, i))}) + 1)

\* name.replace(/[\\/:*?"<>|]/g, "_")
RECURSIVE fileNameSafe(_)
fileNameSafe(name) ==
  IF name = "" THEN ""
  ELSE (IF At(name, 1) \in {"\\", "/", ":", "*", "?", "\"", "<", ">", "|"} THEN "_"
        ELSE At(name, 1)) \o fileNameSafe(From(name, 2))

\* os.tmpdir()
tmpDir == "C:\\Temp"

\* the file getFileAtChangeset writes the content to and returns
tmpFileOf(file, id) ==
  pathJoin(tmpDir, "vstfs-C" \o NatToStr(id) \o "-"
                   \o fileNameSafe(basename(toLocalPathIn(cwd, config.serverPath, file))))

\* items.sort((a, b) => b.changesetId - a.changesetId): greatest id first, ties in order
RECURSIVE sortByIdDesc(_)
sortByIdDesc(items) ==
  LET place(h, sorted) ==
        LET before == Cardinality({i \in 1..Len(sorted) : sorted[i].changesetId >= h.changesetId})
        IN SubSeq(sorted, 1, before) \o << h >> \o SubSeq(sorted, before + 1, Len(sorted))
  IN IF items = << >> THEN << >>
     ELSE place(Head(items), sortByIdDesc(Tail(items)))

\* h.files.some(f => f.path.toLowerCase().includes(path.basename(file).toLowerCase()))
touches(h, file) ==
  \E i \in 1..Len(h.files) :
    Includes(toLowerCase(h.files[i].path), toLowerCase(basename(file)))

\* a faulty variant: without the fallback to the second entry
previousIdStrict(items, file, currentId) ==
  LET sorted == sortByIdDesc(SelectSeq(items, LAMBDA h : touches(h, file)))
      below == SelectSeq(sorted, LAMBDA h : h.changesetId < currentId)
  IN IF below # << >> THEN << below[1].changesetId >> ELSE << >>

\* getPreviousChangesetIdForFile once the history is parsed (<< >> for null)
previousId(items, file, currentId) ==
  LET sorted == sortByIdDesc(SelectSeq(items, LAMBDA h : touches(h, file)))
      below == SelectSeq(sorted, LAMBDA h : h.changesetId < currentId)
  IN IF sorted = << >> THEN << >>
     ELSE IF below # << >> THEN << below[1].changesetId >>
     ELSE IF Len(sorted) >= 2 THEN << sorted[2].changesetId >>
     ELSE << >>

Operations ==
  {"getLatest", "pendingChanges", "checkIn", "undo", "listBranches", "createBranch",
   "merge", "resolve", "history", "changeset", "rollbackToChangeset",
   "getPreviousChangesetIdForFile", "getFileAtChangeset"}

\* the arguments of the first command an operation hands to run()
firstArgs(op, call) ==
  CASE op = "getLatest" -> << "get", call.target, "/recursive" >>
    [] op = "checkIn" -> << "add", ".", "/recursive", "/noprompt" >>
    [] op = "undo" -> undoArgs(call)
    [] op = "listBranches" -> << "branches", item >>
    [] op = "createBranch" -> << "branch", call.target, call.dest, "/recursive" >>
    [] op = "merge" -> << "merge", call.target, call.dest >>
    [] op = "resolve" -> << "resolve", "/auto:AutoMerge" >>
    [] op = "history" -> historyArgs(call)
    [] op = "changeset" -> changesetArgs(call)
    [] op = "getPreviousChangesetIdForFile" -> previousArgs(call)
    [] op = "getFileAtChangeset" -> viewArgs(call)
    [] OTHER -> << "rollback", "/changeset:C" \o NatToStr(call.id) >>

\* an operation up to its first child
startOp(s, op, call) ==
  LET t == [s EXCEPT !.op = op, !.call = call,
                     !.step = CASE op = "pendingChanges" -> "0"
                                [] op = "checkIn" -> "add"
                                [] OTHER -> "own",
                     !.h = [NoHistory EXCEPT !.op = op, !.call = call]]
  IN IF op = "pendingChanges" THEN runBasic(t, statusArgs(0)) ELSE run(t, firstArgs(op, call))

\* .map(it => ({ action: it.action, file: this.toLocalPath(it.file) }))
mapToLocal(items) ==
  [i \in 1..Len(items) |->
     [action |-> items[i].action,
      file |-> toLocalPathIn(cwd, config.serverPath, items[i].file)]]

\* items.find(h => h.changesetId === id) || items[0], then || null (<< >> for null)
RECURSIVE findById(_, _)
findById(items, id) ==
  IF items = << >> THEN << >>
  ELSE IF Head(items).changesetId = id THEN << Head(items) >>
  ELSE findById(Tail(items), id)

changesetMatch(items, id) ==
  IF findById(items, id) # << >> THEN findById(items, id)
  ELSE IF items # << >> THEN << items[1] >>
  ELSE << >>

(***************************************************************************)
(* Continuations: what runs when an awaited call settles                   *)
(***************************************************************************)
okResult(v) == [status |-> "ok", value |-> v, error |-> ""]
failResult(r) == [status |-> "fail", value |-> << >>, error |-> r.message]

\* the operation settled with result: the handler that awaited it goes on
afterOp(s, result) ==
  LET t == [s EXCEPT !.op = "none", !.step = "none", !.res = "none", !.runArgs = << >>,
                     !.args = << >>, !.call = NoCall, !.h.result = result]
      over == [Idle EXCEPT !.h = t.h]
      ok == result.status = "ok"
      view(step, id) ==
        startOp([t EXCEPT !.hstep = step], "getFileAtChangeset",
                [NoCall EXCEPT !.target = s.call.target, !.id = id])
  IN IF s.handler = "vstfs.checkIn" /\ s.hstep = "pendingChanges" /\ ok /\ result.value # << >>
       THEN [t EXCEPT !.hstep = "showQuickPick", !.hdata = result.value]
     ELSE IF s.handler = "diffWithPrevious" /\ s.hstep = "prevId" /\ ok
             /\ result.value # << >> /\ result.value # << 0 >>
       THEN view("prevTemp", result.value[1])
     ELSE IF s.handler = "diffWithPrevious" /\ s.hstep = "prevTemp" /\ ok
       THEN view("thisTemp", s.hdata[1])
     ELSE over

\* the parses of the sampled outputs
detailedOf == [t \in StatusTexts |-> parsePendingDetailed(t)]
briefOf == [t \in StatusTexts |-> parsePending(t)]
historyOf == [t \in HistoryTexts |-> parseHistory(t)]
branchesIn == [t \in BranchesTexts |-> parseBranches(t)]

\* a faulty last variant: without the catch its error reaches the caller
pendingResultThrows(r, found) == IF r.ok THEN okResult(found) ELSE failResult(r)

\* the last variant of pendingChanges: its records, or [] from the catch
pendingResult(r, found) == okResult(IF r.ok THEN found ELSE << >>)

\* the executor (or the resolver, for run) handed r to the operation
opReturns(s, r) ==
  LET logged(found) ==
        [s EXCEPT !.h.qlog =
           Append(@, [variant |-> s.step,
                      outcome |-> IF ~r.ok THEN "error"
                                  ELSE IF found = << >> THEN "empty" ELSE "records"])]
      next(t) ==
        IF t.step = "2" THEN run([t EXCEPT !.step = "3"], statusArgs(3))
        ELSE runBasic([t EXCEPT !.step = IF t.step = "0" THEN "1" ELSE "2"],
                      statusArgs(IF t.step = "0" THEN 1 ELSE 2))
      queried(t, found) ==
        IF t.step = "3" \/ (r.ok /\ found # << >>)
          THEN afterOp(t, pendingResult(r, found))
          ELSE next(t)
      listed(items) ==
        IF s.op = "history" THEN okResult(items)
        ELSE okResult(changesetMatch(items, s.call.id))
      pending(found) == queried(logged(found), found)
  IN CASE s.op = "pendingChanges" ->
            pending(mapToLocal(IF ~r.ok THEN << >>
                               ELSE IF s.step = "0" THEN detailedOf[r.stdout]
                               ELSE briefOf[r.stdout]))
       [] s.op = "checkIn" /\ s.step = "add" ->
            run([s EXCEPT !.step = "checkin"], checkinArgs(s.call))
       [] OTHER ->
            afterOp(s, IF s.op = "resolve" THEN okResult(<< >>)
                       ELSE IF s.op = "getPreviousChangesetIdForFile"
                         THEN okResult(IF ~r.ok THEN << >>
                                       ELSE previousId(historyOf[r.stdout], s.call.target, s.call.id))
                       ELSE IF ~r.ok THEN failResult(r)
                       ELSE IF s.op = "getFileAtChangeset"
                         THEN okResult(<< tmpFileOf(s.call.target, s.call.id) >>)
                       ELSE IF s.op = "listBranches" THEN okResult(branchesIn[r.stdout])
                       ELSE IF s.op \in {"history", "changeset"} THEN listed(historyOf[r.stdout])
                       ELSE okResult(<< >>))

\* a faulty variant: the output of the mapping query is not looked at
alreadyMappedNever(workfoldOutput) == FALSE

\* workfoldOutput.includes(this.cwd) || workfoldOutput.includes(this.config.workspace)
alreadyMapped(workfoldOutput) ==
  Includes(workfoldOutput, cwd) \/ Includes(workfoldOutput, config.workspace)

\* the executor handed r to ensureWorkspaceConfigured, which goes on
resolverReturns(s, r) ==
  LET mapped == s.res = "workfold" /\ r.ok /\ alreadyMapped(r.stdout)
      named == mapped /\ ~Includes(r.stdout, cwd)
      created == s.res \in {"map", "map2"} /\ r.ok
      goOn == mapped \/ created
      toNew == (s.res = "workfold" /\ ~r.ok) \/ (s.res = "map" /\ ~r.ok)
  IN startExec([s EXCEPT !.h.resolved = IF named THEN "named" ELSE IF mapped THEN "mapped"
                                        ELSE IF created THEN "created" ELSE @],
               IF goOn THEN "none"
               ELSE IF toNew THEN "new"
               ELSE IF s.res = "new" THEN "map2" ELSE "map",
               IF goOn THEN fullArgsOf(config, s.runArgs)
               ELSE IF toNew THEN newArgs ELSE mapArgs)

\* a faulty resolver: a failed fallback is not given up
resolverGoesOn(s, r) == FALSE

\* ensureWorkspaceConfigured throws: the fallback (workspace /new, then workfold /map) failed
resolverGivesUp(s, r) == s.res \in {"new", "map2"} /\ ~r.ok

\* the value or error of an executor call reaches the code that awaited it
returnTo(s, r) ==
  IF s.res # "none" /\ ~resolverGivesUp(s, r) THEN resolverReturns(s, r)
  ELSE opReturns(IF s.res = "none" THEN s ELSE [s EXCEPT !.res = "none", !.h.resolved = "failed"],
                 IF s.res = "none" THEN r ELSE resolverError(r))

(***************************************************************************)
(* Actions                                                                 *)
(***************************************************************************)
\* the call as its next step finds it
cur(p) == [proc[p] EXCEPT !.h.lastExec = NoExec]

Store(p, s) ==
  /\ proc' = [proc EXCEPT ![p] = IF p = Observed THEN s ELSE [s EXCEPT !.h = NoHistory]]
  /\ UNCHANGED << config, parse >>

ChangesetIds == {7, 401}
\* the files a changeset panel lists
PanelFiles == {"$/Proj/a.cs", "$/Proj/sub/a.cs"}
CheckIns == {[NoCall EXCEPT !.comment = "", !.files = << >>],
             [NoCall EXCEPT !.comment = "fix", !.files = << "C:\\ws\\a.cs" >>]}
TypedComments == {""}
FileLists == {<< >>, << "C:\\ws\\a.cs" >>}
CallsOf(op) ==
  CASE op \in {"getLatest"} -> {[NoCall EXCEPT !.target = "."]}
    [] op \in {"checkIn"} -> CheckIns
    [] op \in {"undo"} -> {[NoCall EXCEPT !.files = f] : f \in FileLists}
    [] op \in {"createBranch", "merge"} -> {[NoCall EXCEPT !.target = "$/Proj", !.dest = "$/Proj-dev"]}
    [] op \in {"history"} -> {[NoCall EXCEPT !.target = ".", !.max = 50]}
    [] op \in {"changeset", "rollbackToChangeset"} -> {[NoCall EXCEPT !.id = i] : i \in ChangesetIds}
    [] op \in {"getPreviousChangesetIdForFile", "getFileAtChangeset"} ->
         {[NoCall EXCEPT !.target = f, !.id = i] : f \in PanelFiles, i \in ChangesetIds}
    [] OTHER -> {NoCall}

\* no handler runs in slot p; the observed slot makes one call and keeps its record
Free(p) == proc[p].handler = "none" /\ proc[p].h.op = "none"

\* a caller invokes one public operation of the TFVC object
Call(p) ==
  /\ Free(p)
  /\ \E op \in Operations : \E call \in CallsOf(op) :
       Store(p, startOp([Idle EXCEPT !.handler = "call", !.hstep = op], op, call))

\* the host reads the children of a tree view (the view is shown, or refresh() fired)
GetChildren(p) ==
  /\ Free(p)
  /\ \E view \in {"pending", "history", "branches"} :
       LET op == CASE view = "pending" -> "pendingChanges"
                   [] view = "history" -> "history"
                   [] OTHER -> "listBranches"
           call == IF view = "history" THEN [NoCall EXCEPT !.target = ".", !.max = 100] ELSE NoCall
       IN Store(p, startOp([Idle EXCEPT !.handler = "getChildren", !.hstep = op], op, call))

\* the user runs a command
Command(p) ==
  /\ Free(p)
  /\ \/ Store(p, startOp([Idle EXCEPT !.handler = "vstfs.getLatest", !.hstep = "getLatest"],
                         "getLatest", [NoCall EXCEPT !.target = "."]))
     \/ Store(p, startOp([Idle EXCEPT !.handler = "vstfs.checkIn", !.hstep = "pendingChanges"],
                         "pendingChanges", NoCall))

RECURSIVE filesOfItems(_)
filesOfItems(items) ==
  IF items = << >> THEN << >> ELSE << Head(items).file >> \o filesOfItems(Tail(items))

\* the messages a changeset panel's webview posts
MessageTypes ==
  {"openFileAtVersion", "diffWithPrevious", "diffWithWorkspaceLatest", "revertFileToChangeset"}

\* onDidReceiveMessage of a panel showing changeset id: the handler up to its first await
Message(p) ==
  /\ Free(p)
  /\ \E type \in MessageTypes : \E file \in PanelFiles : \E id \in ChangesetIds :
       LET handler == [Idle EXCEPT !.handler = type, !.hdata = << id >>,
                                   !.hstep = IF type = "diffWithPrevious" THEN "prevId"
                                             ELSE "temp"]
       IN Store(p, startOp(handler,
                           IF type = "diffWithPrevious" THEN "getPreviousChangesetIdForFile"
                           ELSE "getFileAtChangeset",
                           [NoCall EXCEPT !.target = file, !.id = id]))

\* a faulty selection step: an empty selection goes on to the confirmation
ShowQuickPickAny(p) ==
  /\ proc[p].hstep = "showQuickPick"
  /\ \/ Store(p, Idle)
     \/ \E n \in 0..Len(proc[p].hdata) :
          Store(p, [proc[p] EXCEPT !.h = NoHistory, !.hstep = "confirm", !.hdata = SubSeq(@, 1, n)])

\* vstfs.checkIn: the user answers the file selection (nothing, or a non-empty selection)
ShowQuickPick(p) ==
  /\ proc[p].hstep = "showQuickPick"
  /\ \/ Store(p, Idle)
     \/ \E n \in 1..Len(proc[p].hdata) :
          Store(p, [proc[p] EXCEPT !.h = NoHistory, !.hstep = "confirm", !.hdata = SubSeq(@, 1, n)])

\* vstfs.checkIn: the user answers the confirmation
Confirm(p) ==
  /\ proc[p].hstep = "confirm"
  /\ \/ Store(p, Idle)
     \/ Store(p, [proc[p] EXCEPT !.h = NoHistory, !.hstep = "showInputBox"])

\* vstfs.checkIn: the user answers the comment box; checkIn starts unless dismissed
ShowInputBox(p) ==
  /\ proc[p].hstep = "showInputBox"
  /\ \/ Store(p, Idle)
     \/ \E c \in TypedComments :
          Store(p, startOp([proc[p] EXCEPT !.h = NoHistory, !.hstep = "checkIn", !.hdata = << >>], "checkIn",
                           [NoCall EXCEPT !.comment = c, !.files = filesOfItems(proc[p].hdata)]))

\* the child of the first attempt exits
AttemptExits(p) ==
  /\ proc[p].ex = "Running"
  /\ \E exit \in ExitsOf(proc[p].args) :
       IF ~exit.ok /\ wantsSignIn(proc[p].args, exit)
         THEN Store(p, startSignIn(cur(p), exit))
         ELSE Store(p, returnTo(settle(cur(p), exit, IF exit.ok THEN "Succeeded" ELSE "Failed"),
                                returned(exit, proc[p].args)))

\* a faulty sign-in: the error of the sign-in command ends the executor call
SignInExitsThrows(p) ==
  /\ proc[p].ex = "Reauthenticating"
  /\ \E exit \in SignInExitKinds :
       IF exit.ok THEN Store(p, startRetry(cur(p), exit))
       ELSE Store(p, returnTo(settle([cur(p) EXCEPT !.h.exec.signIn = "fail"], exit, "Failed"),
                              returned(exit, signInArgs)))

\* the sign-in window closes; signIn() swallows its outcome
SignInExits(p) ==
  /\ proc[p].ex = "Reauthenticating"
  /\ \E exit \in SignInExitKinds : Store(p, startRetry(cur(p), exit))

\* a faulty retry: a retry that fails with an authentication signature signs in again
RetryExitsLoop(p) ==
  /\ proc[p].ex = "Retrying"
  /\ \E exit \in ExitsOf(proc[p].args) :
       IF ~exit.ok /\ wantsSignIn(proc[p].args, exit) /\ Len(proc[p].h.exec.launches) < 5
         THEN Store(p, startSignIn(cur(p), exit))
         ELSE Store(p, returnTo(settle(cur(p), exit, IF exit.ok THEN "Succeeded" ELSE "Failed"),
                                returned(exit, proc[p].args)))

\* the child of the retry exits
RetryExits(p) ==
  /\ proc[p].ex = "Retrying"
  /\ \E exit \in ExitsOf(proc[p].args) :
       Store(p, returnTo(settle(cur(p), exit, IF exit.ok THEN "Succeeded" ELSE "Failed"),
                         returned(exit, proc[p].args)))

Continue(p) ==
  \/ ShowQuickPick(p) \/ Confirm(p) \/ ShowInputBox(p)
  \/ AttemptExits(p) \/ SignInExits(p) \/ RetryExits(p)

\* one observed call at a time, driven by a caller of the object or by the host
Next ==
  \/ Call(Observed) \/ GetChildren(Observed) \/ Command(Observed)
  \/ Continue(Observed)

Spec == Init /\ [][Next]_vars

\* the extension host runs its handlers side by side
NextConc ==
  \E p \in 1..NumProcs : GetChildren(p) \/ Command(p) \/ Continue(p)

SpecConc == Init /\ [][NextConc]_vars

\* the observed call waits for a child process (at most one runs per call)
Waiting == proc[Observed].ex # "none"

\* the child the observed call waits for exits
ChildExits == AttemptExits(Observed) \/ SignInExits(Observed) \/ RetryExits(Observed)

\* a step of the waiting call: under NextCalls these are the steps of ChildExits, the
\* call's record changes and nothing else does
ChildExitStep ==
  /\ Waiting
  /\ UNCHANGED << config, parse >>
  /\ (proc' = [proc EXCEPT ![Observed].ex = "none"] \/ proc' # proc)

\* the public operations called one at a time
NextCalls == Call(Observed) \/ ChildExits

\* every launched child exits in the end: a waiting call is not left waiting for ever
SpecChildrenExit == Init /\ [][NextCalls]_vars /\ WF_vars(ChildExitStep)

\* the message handlers of the changeset panels run side by side
NextPanel ==
  \E p \in 1..NumProcs : Message(p) \/ AttemptExits(p) \/ SignInExits(p) \/ RetryExits(p)

\* the panels of an object constructed without a workspace name
InitPanel == Init /\ config.workspace = ""

SpecPanel == InitPanel /\ [][NextPanel]_vars

(***************************************************************************)
(* Properties of the executor                                              *)
(***************************************************************************)
hist == proc[Observed].h
running == hist.exec
settled == hist.lastExec

IsPrefix(a, b) == Len(a) <= Len(b) /\ SubSeq(b, 1, Len(a)) = a

RetryTrace(final) == << "Running", "AuthFailed", "Reauthenticating", "Retrying", final >>
ExecutorTraces ==
  { << "Running", "Succeeded" >>, << "Running", "Failed" >>,
    RetryTrace("Succeeded"), RetryTrace("Failed") }

\* launches of the original command and of the sign-in command in an executor record
OriginalLaunches(e) == {i \in 1..Len(e.launches) : e.launches[i] = execOnce(e.args)}
SignInLaunches(e) == {i \in 1..Len(e.launches) : e.launches[i].visible}

LaunchesBounded(e) ==
  /\ Cardinality(OriginalLaunches(e)) <= 2
  /\ Cardinality(SignInLaunches(e)) <= 1
  /\ OriginalLaunches(e) \cup SignInLaunches(e) = 1..Len(e.launches)

\* C1: every executor call follows one of the four traces Running->Succeeded,
\* Running->Failed, Running->AuthFailed->Reauthenticating->Retrying->Succeeded|Failed;
\* it launches the original command at most twice and the sign-in at most once, and
\* a retry that fails ends the call, failed, with the retry's own error.
C1_ExecutorTraces ==
  /\ \E t \in ExecutorTraces : IsPrefix(running.trace, t)
  /\ LaunchesBounded(running)
  /\ settled.trace # << >> =>
        /\ settled.trace \in ExecutorTraces
        /\ LaunchesBounded(settled)
        /\ Len(settled.launches) = IF Len(settled.trace) = 2 THEN 1 ELSE 3
        /\ settled.ok = (settled.trace[Len(settled.trace)] = "Succeeded")
        /\ settled.trace = RetryTrace("Failed") =>
              /\ Len(settled.exits) = 2
              /\ settled.message = failureMessage(settled.args, settled.exits[2])
        /\ proc[Observed].ex = "none" \/ running.trace = << "Running" >>

\* C1 witness: a retry failed with an authentication signature and the call ended there
C1_Witness ==
  /\ settled.trace = RetryTrace("Failed")
  /\ isAuthError(settled.message)
  /\ proc[Observed].ex = "none"
  /\ hist.result.status = "fail"

\* the first attempt of the settled executor call failed
FirstAttemptFailed == settled.trace # << >> /\ ~settled.exits[1].ok

\* stdout together with stderr of the first attempt
CombinedOutput == settled.exits[1].stdout \o "\n" \o settled.exits[1].stderr

\* C2: with a server configured, whenever the first attempt fails and its combined
\* output (stdout together with stderr) carries an authentication signature, one
\* visible sign-in is launched, then the original command once more with the same
\* arguments, and a successful retry is the call's result.
C2_SignInOnCombinedOutput ==
  (FirstAttemptFailed /\ config.serverUrl # "" /\ isAuthError(CombinedOutput)) =>
    /\ settled.launches =
         << execOnce(settled.args), execVisibleOnce(signInArgs), execOnce(settled.args) >>
    /\ settled.exits[2].ok => settled.ok

\* C3: when the first attempt fails and its output carries no authentication
\* signature, the call fails without a sign-in or a second attempt, and its message
\* is the captured stderr, or the captured stdout when stderr is empty.
C3_PlainFailure ==
  (FirstAttemptFailed /\ ~isAuthError(CombinedOutput)) =>
    /\ settled.trace = << "Running", "Failed" >>
    /\ settled.launches = << execOnce(settled.args) >>
    /\ settled.exits[1].stderr # "" => settled.message = settled.exits[1].stderr
    /\ (settled.exits[1].stderr = "" /\ settled.exits[1].stdout # "") =>
          settled.message = settled.exits[1].stdout

(***************************************************************************)
(* Properties of pendingChanges                                            *)
(***************************************************************************)
\* the commands of the operation itself, in launch order (resolver commands left out)
OwnCalls == SelectSeq(hist.calls, LAMBDA c : c.by = "own")

HasArg(args, a) == \E i \in 1..Len(args) : args[i] = a
HasArgPrefix(args, a) == \E i \in 1..Len(args) : StartsWith(args[i], a)

\* which status query a command line is
QueryKind(args) ==
  IF args = << >> \/ args[1] # "status" THEN "other"
  ELSE IF HasArg(args, "/format:detailed") THEN "detailed"
  ELSE IF ~HasArg(args, "/format:brief") THEN "other"
  ELSE IF HasArgPrefix(args, "/workspace:") THEN "workspace"
  ELSE IF HasArg(args, "/noprompt") THEN "collection"
  ELSE "brief"

QueryOrder == << "detailed", "brief", "workspace", "collection" >>

\* the records the query that settled last yields: its parse, mapped to local paths
SettledRecords ==
  LET out == settled.exits[Len(settled.exits)].stdout
  IN mapToLocal(IF QueryKind(settled.args) = "detailed" THEN parsePendingDetailed(out)
                ELSE parsePending(out))

PendingReturned == hist.op = "pendingChanges" /\ hist.result.status # "none"

C5_NeverFails ==
  PendingReturned =>
    /\ hist.result.status = "ok"
    /\ (\A i \in 1..Len(hist.qlog) : hist.qlog[i].outcome # "records") =>
          /\ Len(hist.qlog) = 4
          /\ hist.result.value = << >>

\* C5 witness: the first three queries failed and the workspace could not be
\* configured for the last one; the empty list was returned
C5_Witness ==
  /\ PendingReturned
  /\ hist.resolved = "failed"
  /\ \A i \in 1..Len(hist.qlog) : hist.qlog[i].outcome = "error"
  /\ hist.result = okResult(<< >>)

(***************************************************************************)
(* Properties of the other operations                                      *)
(***************************************************************************)
\* C6: changeset(id) returns an entry whose changesetId is id, or nothing when no
\* parsed entry has that id; never the entry of another changeset.
C6_ChangesetMatches ==
  (hist.op = "changeset" /\ hist.result.status = "ok") =>
    \/ hist.result.value = << >>
    \/ hist.result.value[1].changesetId = hist.call.id

\* C7: at every moment at most one TF subprocess launched by the layer is running.
C7_OneSubprocess == Cardinality({p \in Procs : proc[p].child # NoChild}) <= 1

\* commands that change the workspace or the server
Mutating(args) ==
  \/ args[1] \in {"add", "checkin", "undo", "get", "branch", "merge", "rollback", "workspace"}
  \/ args[1] = "workfold" /\ Len(args) > 1

\* C8: when a public operation fails, no mutating command launched by that call has
\* completed successfully.
C8_NothingPartiallyApplied ==
  hist.result.status = "fail" =>
    \A i \in 1..Len(hist.calls) :
      hist.calls[i].status = "ok" => ~Mutating(hist.calls[i].args)

StatefulOps == {"getLatest", "checkIn", "undo", "createBranch", "merge", "rollbackToChangeset"}

\* a command of a stateful operation itself is the latest launch
OwnCommandLaunched ==
  /\ hist.op \in StatefulOps
  /\ hist.calls # << >>
  /\ hist.calls[Len(hist.calls)].by = "own"

\* C9 as amended: with serverUrl and workspace both configured, a stateful
\* operation's own command is launched only after the resolver ran in that call and
\* either took the workfold output (naming the working directory or the workspace)
\* for an existing mapping or created the mapping; with either setting missing the
\* resolver returns at once and the command is launched without one.
C9_ResolverBeforeCommand ==
  OwnCommandLaunched =>
    LET n == Len(hist.calls)
    IN IF config.serverUrl = "" \/ config.workspace = ""
         THEN /\ hist.resolved = "skipped"
              /\ \A i \in 1..n : hist.calls[i].by = "own"
         ELSE /\ hist.resolved \in {"mapped", "named", "created"}
              /\ n >= 2
              /\ hist.calls[n - 1].by = "resolver"
              /\ hist.calls[n - 1].status = "ok"
              /\ hist.calls[n - 1].args[1] = "workfold"
              /\ hist.resolved = "created" <=> Len(hist.calls[n - 1].args) > 1

\* C9 witness: no mapping was found, the first mapping attempt failed, the workspace
\* was created and mapped, and then the command of getLatest was launched
C9_Witness ==
  /\ OwnCommandLaunched
  /\ hist.op = "getLatest"
  /\ hist.resolved = "created"
  /\ Len(hist.calls) = 5
  /\ hist.calls[3].args[1] = "workspace" /\ hist.calls[3].status = "ok"

\* C9 as stated: the own command of a stateful operation is launched only after the
\* resolver found the working directory mapped or created the mapping.
C9_Original ==
  OwnCommandLaunched => hist.resolved \in {"mapped", "created"}

PendingActions == {"edit", "add", "delete", "rename", "merge", "unknown"}

\* C10: every record pendingChanges returns has an action among edit, add, delete,
\* rename, merge, unknown, and a row whose change column names none of the five
\* gets unknown.
C10_ActionVocabulary ==
  PendingReturned =>
    /\ \A i \in 1..Len(hist.result.value) : hist.result.value[i].action \in PendingActions
    /\ (hist.result.value # << >> /\ settled.exits[Len(settled.exits)].stdout = StatusBriefText) =>
          \E i \in 1..Len(hist.result.value) :
            /\ hist.result.value[i].file = "C:\\ws\\b.cs"
            /\ hist.result.value[i].action = "unknown"

(***************************************************************************)
(* Parser calls taken alone: one call at a time, one loop turn per step    *)
(***************************************************************************)
Parsers == {"parsePending", "parsePendingDetailed", "parseHistory"}

\* the locals of a parser, as declared at the top of the function body
freshLocals(fn) ==
  CASE fn = "parsePending" ->
         [items |-> << >>, currentServerFolder |-> "", buffer |-> "", pendingNameFragment |-> ""]
    [] fn = "parsePendingDetailed" -> [items |-> << >>, currentPath |-> ""]
    [] OTHER -> [items |-> << >>]

\* the locals a call starts with; left is what the call before it ended with
\* a faulty variant: the locals are fields that outlive the call
localsKept(fn, left) ==
  IF DOMAIN left = DOMAIN freshLocals(fn) THEN [left EXCEPT !.items = << >>]
  ELSE freshLocals(fn)

localsAtEntry(fn, left) == freshLocals(fn)

\* what the loop of a parser runs over: lines, or blocks for parseHistory
loopItems(fn, text) ==
  CASE fn = "parsePending" -> KeptLines(splitLines(text))
    [] fn = "parsePendingDetailed" -> splitLines(text)
    [] OTHER -> SplitByRule(text, 1)

\* one turn of the loop of a parser
loopStep(fn, st, x) ==
  CASE fn = "parsePending" -> PendingStep(st, x)
    [] fn = "parsePendingDetailed" -> DetailedStep(st, x)
    [] OTHER -> [items |-> st.items \o (IF trim(x) = "" THEN << >> ELSE historyOfBlock(trim(x)))]

\* an input line: its text, and for a data row the record it stands for
Line(kind, text) == [kind |-> kind, text |-> text, action |-> "", file |-> "", id |-> 0]
Row(text, action, file) ==
  [kind |-> "row", text |-> text, action |-> action, file |-> file, id |-> 0]

\* all sequences over S of length at most n
SeqsUpTo(S, n) == UNION {[1..k -> S] : k \in 0..n}

\* the text handed to a parser: the pieces with sep between them, ended by a line feed
TextOf(pieces, sep) == JoinWith([i \in 1..Len(pieces) |-> pieces[i].text], sep) \o "\n"

MaxBodyLines == 3
MaxCalls == 3

Blanks(n) == SubSeq("          ", 1, n)

TableHeader ==
  << Line("header", "File name Change Local path"), Line("rule", "--------- ------ ----------") >>

DataRow(name, change, gap, local) ==
  Row(name \o Blanks(gap) \o change \o Blanks(gap) \o local, change, local)

\* the lines a brief status table is made of below its header
TableLines ==
  { DataRow("a.cs", "edit", 6, "C:\\ws\\a.cs"),
    DataRow("My File.cs", "add", 2, "C:\\ws\\My File.cs"),
    DataRow("b.prefab", "rename", 3, "C:\\ws\\sub\\b.prefab"),
    DataRow("c.txt", "delete", 2, "C:\\ws\\c.txt"),
    DataRow("d.cs", "merge", 4, "C:\\ws\\d.cs"),
    Line("folder", "$/Proj"), Line("folder", "$/Proj/sub dir"),
    Line("banner", "Workspace: WS1"),
    Line("rule", "-----") }

\* well-formed brief status tables
TableInputs ==
  { [fn |-> "parsePending", family |-> "table", sep |-> "\n", lines |-> TableHeader \o body] :
      body \in SeqsUpTo(TableLines, MaxBodyLines) }

parsing == parse.fn # "none" /\ ~parse.done

\* the call of a parser up to its loop
entered(in) ==
  [parse EXCEPT !.fn = in.fn, !.family = in.family, !.src = in.lines, !.sep = in.sep,
                !.todo = loopItems(in.fn, TextOf(in.lines, in.sep)),
                !.st = localsAtEntry(in.fn, parse.left), !.done = FALSE]

\* a parser is called with one of the given inputs
BeginParse(inputs) ==
  /\ parse.fn = "none"
  /\ \E in \in inputs : parse' = entered(in)
  /\ UNCHANGED << config, proc >>

\* one turn of the loop
ParseStep ==
  /\ parsing /\ parse.todo # << >>
  /\ parse' = [parse EXCEPT !.st = loopStep(parse.fn, parse.st, Head(parse.todo)),
                            !.todo = Tail(parse.todo)]
  /\ UNCHANGED << config, proc >>

\* the loop is over: the call returns st.items
EndParse ==
  /\ parsing /\ parse.todo = << >>
  /\ parse' = [parse EXCEPT !.done = TRUE, !.left = parse.st,
                            !.seen = Append(parse.seen,
                                       [fn |-> parse.fn, src |-> parse.src, sep |-> parse.sep,
                                        st |-> parse.st])]
  /\ UNCHANGED << config, proc >>

\* the same object's parser is called again after an earlier call returned
ParseAgain(inputs) ==
  /\ parse.done /\ Len(parse.seen) < MaxCalls
  /\ \E in \in inputs : parse' = entered(in)
  /\ UNCHANGED << config, proc >>

MaxBlocks == 3

Block(text, id) == [kind |-> "block", text |-> text, action |-> "", file |-> "", id |-> id]

\* blocks of tf history /format:detailed; id 0 marks a block with no changeset line
HistoryBlocks ==
  { Block("Changeset: 7\nUser: alice\nDate: Monday\n\nComment:\n  first\n", 7),
    Block("Changeset: 8\nUser: bob\n\nComment:\n  Changeset: 9 was bad\n", 8),
    Block("  changeset:   12\n  User: carol\n", 12),
    Block("No history entries were found.", 0),
    Block("Changeset: pending\nUser: dave\n", 0) }

HistoryRules == {"\n-----\n", "\n--------------------  \n"}

HistoryInputs ==
  { [fn |-> "parseHistory", family |-> "history", sep |-> rule, lines |-> blocks] :
      rule \in HistoryRules, blocks \in SeqsUpTo(HistoryBlocks, MaxBlocks) }

InitParse ==
  /\ config \in {c \in Configs : c.serverUrl # "" /\ c.workspace # ""}
  /\ proc = [p \in Procs |-> Idle]
  /\ parse = NoParse

\* parsePending called on compact tables
NextTable == BeginParse(TableInputs) \/ ParseStep \/ EndParse

SpecTable == InitParse /\ [][NextTable]_vars

\* parseHistory called on detailed history listings
NextHistory == BeginParse(HistoryInputs) \/ ParseStep \/ EndParse

SpecHistory == InitParse /\ [][NextHistory]_vars

\* the rows among the lines of an input, as the records they stand for
RECURSIVE RowsOf(_)
RowsOf(lines) ==
  IF lines = << >> THEN << >>
  ELSE (IF Head(lines).kind = "row"
          THEN << [action |-> Head(lines).action, file |-> Head(lines).file] >>
          ELSE << >>) \o RowsOf(Tail(lines))

Returned(fn, family) == parse.fn = fn /\ parse.family = family /\ parse.done

\* C11: for a well-formed brief status table parsePending returns one record per
\* data row, in row order, with the row's change and local path, and none for the
\* header, separator, banner and folder-header lines.
C11_OneRecordPerRow ==
  Returned("parsePending", "table") =>
    /\ parse.st.items = RowsOf(parse.src)
    /\ parse.st.items = parsePending(TextOf(parse.src, parse.sep))

\* C11 witness: a table with a folder header and two data rows below it was parsed
C11_Witness ==
  /\ Returned("parsePending", "table")
  /\ Len(parse.src) = 5 /\ parse.src[3].kind = "folder"
  /\ Len(parse.st.items) = 2

\* the ids of the blocks that have a changeset line, in block order
RECURSIVE IdsOf(_)
IdsOf(blocks) ==
  IF blocks = << >> THEN << >>
  ELSE (IF Head(blocks).id > 0 THEN << Head(blocks).id >> ELSE << >>) \o IdsOf(Tail(blocks))

\* C12: parseHistory returns one entry for each rule-separated block that has a
\* Changeset: line, with that block's id and in block order, and none for a block
\* without such a line.
C12_OneEntryPerBlock ==
  Returned("parseHistory", "history") =>
    /\ [i \in 1..Len(parse.st.items) |-> parse.st.items[i].changesetId] = IdsOf(parse.src)
    /\ parse.st.items = parseHistory(TextOf(parse.src, parse.sep))

\* C12 witness: of three blocks the middle one had no changeset line; two entries
\* were returned
C12_Witness ==
  /\ Returned("parseHistory", "history")
  /\ Len(parse.src) = 3 /\ parse.src[2].id = 0
  /\ Len(parse.st.items) = 2

\* inputs that leave a folder header, a row buffer or an open block behind, and
\* inputs whose result would change if that were still there
ReparseInputs ==
  { [fn |-> "parsePending", family |-> "again", sep |-> "\n",
     lines |-> TableHeader \o << Line("folder", "$/Proj/sub"), Line("other", "Some name") >>],
    [fn |-> "parsePending", family |-> "again", sep |-> "\n",
     lines |-> << Row("b.cs   add   b.cs", "add", "b.cs") >>],
    [fn |-> "parsePendingDetailed", family |-> "again", sep |-> "\n",
     lines |-> << Line("path", "$/Proj/a.cs") >>],
    [fn |-> "parsePendingDetailed", family |-> "again", sep |-> "\n",
     lines |-> << Line("change", "  Change: edit") >>],
    [fn |-> "parsePendingDetailed", family |-> "again", sep |-> "\n",
     lines |-> << Line("path", "$/Proj/b.cs"), Line("change", "  Change: add") >>],
    [fn |-> "parseHistory", family |-> "again", sep |-> "\n-----\n",
     lines |-> << Block("Changeset: 7\nUser: alice\n", 7) >>],
    [fn |-> "parseHistory", family |-> "again", sep |-> "\n-----\n",
     lines |-> << Block("No history entries were found.", 0), Block("Changeset: 8\n", 8) >>] }

\* the parsers of one TFVC object called again and again
NextReparse ==
  BeginParse(ReparseInputs) \/ ParseAgain(ReparseInputs) \/ ParseStep \/ EndParse

SpecReparse == InitParse /\ [][NextReparse]_vars

\* what each parser returns for a text
resultOf(fn, text) ==
  CASE fn = "parsePending" -> parsePending(text)
    [] fn = "parsePendingDetailed" -> parsePendingDetailed(text)
    [] OTHER -> parseHistory(text)

atEntry ==
  parsing /\ Len(parse.todo) = Len(loopItems(parse.fn, TextOf(parse.src, parse.sep)))

MaxCapLines == 3

\* n copies of the character c
RECURSIVE Repeat(_, _)
Repeat(c, n) ==
  IF n = 0 THEN "" ELSE IF n = 1 THEN c
  ELSE Repeat(c, n \div 2) \o Repeat(c, n - n \div 2)

\* lines no row format matches, of lengths around the cap, and rows
CapLines ==
  { Line("garbage", Repeat("x", BufferCap + 1)), Line("garbage", Repeat("y", BufferCap)),
    Line("garbage", Repeat("z", BufferCap \div 2)), Line("garbage", "ww"),
    DataRow("a.cs", "edit", 3, "C:\\ws\\a.cs"), DataRow("My File.cs", "add", 2, "C:\\ws\\My File.cs") }

CapInputs ==
  { [fn |-> "parsePending", family |-> "cap", sep |-> "\n", lines |-> body] :
      body \in SeqsUpTo(CapLines, MaxCapLines) }

\* parsePending called on output with long unparseable lines
NextCap == BeginParse(CapInputs) \/ ParseStep \/ EndParse

SpecCap == InitParse /\ [][NextCap]_vars

\* C15: at every line boundary of parsePending the row buffer holds at most 500
\* characters; unparseable lines that push it past the cap are dropped, appear
\* in no returned record, and the well-formed rows after them are still parsed.
C15_BufferCapped ==
  (parse.fn = "parsePending" /\ parse.family = "cap") =>
    /\ Len(parse.st.buffer) <= BufferCap
    /\ parse.done => parse.st.items = RowsOf(parse.src)

\* C15 witness: two unparseable lines, each under the cap and together over it,
\* were followed by a row, and the row alone was returned
C15_Witness ==
  /\ Returned("parsePending", "cap") /\ Len(parse.src) = 3
  /\ parse.src[1].kind = "garbage" /\ parse.src[2].kind = "garbage"
  /\ Len(parse.src[1].text) <= BufferCap /\ Len(parse.src[2].text) <= BufferCap
  /\ Len(parse.src[1].text) + 1 + Len(parse.src[2].text) > BufferCap
  /\ parse.src[3].kind = "row"
  /\ parse.st.items = << [action |-> parse.src[3].action, file |-> parse.src[3].file] >>

MaxDetailedLines == 4

ChangeLine(text, kind) == [Line("change", text) EXCEPT !.action = kind]

\* lines of tf status /format:detailed
DetailedLines ==
  { Line("path", "$/Proj/a.cs;C7"), Line("path", "C:\\ws\\b.cs"),
    ChangeLine("  Change: edit", "edit"), ChangeLine("  CHANGE:   add, lock", "add"),
    Line("other", "  Change: lock"), Line("sep", "-----"),
    Line("other", "  Local item : [PC] C:\\ws\\a.cs") }

DetailedInputs ==
  { [fn |-> "parsePendingDetailed", family |-> "detailed", sep |-> "\n", lines |-> body] :
      body \in SeqsUpTo(DetailedLines, MaxDetailedLines) }

\* parsePendingDetailed called on detailed status listings
NextDetailed == BeginParse(DetailedInputs) \/ ParseStep \/ EndParse

SpecDetailed == InitParse /\ [][NextDetailed]_vars

\* the path line that is open at line i: the nearest path, change or separator
\* line before i, if that is a path line; 0 for none
Opener(lines, i) ==
  LET marks == {j \in 1..(i - 1) : lines[j].kind \in {"path", "change", "sep"}}
      last(j) == IF j > 0 /\ lines[j].kind = "path" THEN j ELSE 0
  IN last(MaxOr0(marks))

\* the records owed for the lines from i on: one for each change line with an
\* open path line
RECURSIVE RecordsFrom(_, _)
RecordsFrom(lines, i) ==
  IF i > Len(lines) THEN << >>
  ELSE (IF lines[i].kind = "change" /\ Opener(lines, i) > 0
          THEN << [action |-> lines[i].action, file |-> lines[Opener(lines, i)].text] >>
          ELSE << >>)
       \o RecordsFrom(lines, i + 1)

\* C19: parsePendingDetailed emits a record exactly for each change line with
\* an open block, pairing its kind with the most recent path line since the last
\* emitted record or separator; a path line yields at most one record, and a
\* change line after a separator or after another change line, with no path line
\* in between, emits nothing.
C19_BlockPairing ==
  Returned("parsePendingDetailed", "detailed") =>
    /\ parse.st.items = RecordsFrom(parse.src, 1)
    /\ Len(parse.st.items) <= Cardinality({j \in 1..Len(parse.src) : parse.src[j].kind = "path"})
    /\ parse.st.items = parsePendingDetailed(TextOf(parse.src, parse.sep))

\* C19 witness: a path line, two change lines and a separated change line gave
\* one record, the first change paired with the path
C19_Witness ==
  /\ Returned("parsePendingDetailed", "detailed") /\ Len(parse.src) = 4
  /\ parse.src[1].kind = "path" /\ parse.src[2].kind = "change"
  /\ parse.src[3].kind = "change" /\ parse.src[3].action # parse.src[2].action
  /\ parse.src[4].kind = "path"
  /\ parse.st.items = << [action |-> parse.src[2].action, file |-> parse.src[1].text] >>

MaxAnyLines == 3

\* brief status lines: rows, a folder header, and lines that match no shape
\* when taken alone
MixedBriefLines ==
  { DataRow("a.cs", "edit", 3, "C:\\ws\\a.cs"), DataRow("My File.cs", "add", 2, "C:\\ws\\My File.cs"),
    Line("folder", "$/Proj"),
    Line("other", "hello edit"), Line("other", "lock   C:\\ws\\b.cs"),
    Line("other", "Some name"), Line("other", "x   edit") }

\* lines of a history listing: labels, a rule, and lines that match no shape
MixedHistoryLines ==
  { Line("label", "Changeset: 7"), Line("label", "User: alice"), Line("rule", "-----"),
    Line("other", "garbage text"), Line("other", "Check-in notes follow") }

AnyInputs ==
  UNION { { [fn |-> w[1], family |-> "any", sep |-> "\n", lines |-> body] :
              body \in SeqsUpTo(w[2], MaxAnyLines) } :
          w \in { << "parsePending", MixedBriefLines >>,
                  << "parsePendingDetailed", DetailedLines >>,
                  << "parseHistory", MixedHistoryLines >> } }

\* the parsers called on output with lines of no known shape
NextAny == BeginParse(AnyInputs) \/ ParseStep \/ EndParse

SpecAny == InitParse /\ [][NextAny]_vars

\* the input without the lines that match no shape
Recognised(lines) == SelectSeq(lines, LAMBDA l : l.kind # "other")

\* what the parser returns for the input without those lines
WithoutOthers == resultOf(parse.fn, TextOf(Recognised(parse.src), parse.sep))

\* a list of records of the parser's type came back
ListReturned ==
  IF parse.fn = "parseHistory"
    THEN \A i \in 1..Len(parse.st.items) :
           /\ DOMAIN parse.st.items[i] = {"changesetId", "author", "date", "comment", "files"}
           /\ parse.st.items[i].changesetId \in Nat
    ELSE \A i \in 1..Len(parse.st.items) :
           /\ DOMAIN parse.st.items[i] = {"action", "file"}
           /\ \E k \in 1..Len(PendingActionWords) :
                parse.st.items[i].action = PendingActionWords[k]

\* every line of no known shape is at once followed by a row or a folder
\* header, which empty the row buffer, or is the last line
Forgotten(lines) ==
  \A i \in 1..Len(lines) :
    lines[i].kind = "other" => i = Len(lines) \/ lines[i + 1].kind \in {"row", "folder"}

MaxItemLines == 3

ItemLine(text, change, path) == [Line("item", text) EXCEPT !.action = change, !.file = path]

\* the head of a history block; the user line carries the author it names
EntryHead ==
  << [Line("id", "Changeset: 101") EXCEPT !.id = 101],
     [Line("user", "User: alice") EXCEPT !.file = "alice"],
     Line("date", "Date: Monday") >>

\* the comment on the label's line, or on the lines after it; the label line
\* carries the comment it opens
EntryComments ==
  { << [Line("comment", "Comment: fix bug") EXCEPT !.file = "fix bug"], Line("text", "") >>,
    << [Line("comment", "Comment:") EXCEPT !.file = "fix bug\n  second line"],
       Line("text", "  fix bug"), Line("text", "  second line"), Line("text", "") >> }

\* lines under the Items: label; an item line carries its change and its path
EntryItems ==
  { ItemLine("  edit $/Proj/A.cs", "edit", "$/Proj/A.cs"),
    ItemLine("  add  $/Proj/new file.cs", "add", "$/Proj/new file.cs"),
    ItemLine("  Rename $/Proj/r.cs", "Rename", "$/Proj/r.cs"),
    ItemLine("  merge, edit $/Proj/d.cs", "merge, edit", "$/Proj/d.cs"),
    Line("other", "  lock $/Proj/l.cs") }

EntryInputs ==
  { [fn |-> "parseHistory", family |-> "entry", sep |-> "\n",
     lines |-> EntryHead \o c \o << Line("items", "Items:") >> \o body] :
      c \in EntryComments, body \in SeqsUpTo(EntryItems, MaxItemLines) }

\* parseHistory called on one block of a detailed history listing
NextEntry == BeginParse(EntryInputs) \/ ParseStep \/ EndParse

SpecEntry == InitParse /\ [][NextEntry]_vars

\* the line of the given kind in a block that has one
TheLine(lines, kind) == lines[CHOOSE i \in 1..Len(lines) : lines[i].kind = kind]

\* the (change, path) pairs the item lines of a block stand for
RECURSIVE PairsOf(_)
PairsOf(lines) ==
  IF lines = << >> THEN << >>
  ELSE (IF Head(lines).kind = "item"
          THEN << [change |-> Head(lines).action, path |-> Head(lines).file] >>
          ELSE << >>)
       \o PairsOf(Tail(lines))

\* C21: for a block with Changeset:, User: and Comment: lines parseHistory
\* yields one entry: the author is the User text, the comment is the trimmed
\* text between the Comment: and Items: labels, and the files are one
\* (change, path) pair, in order, for each Items line that begins with edit,
\* add, delete, rename or merge.
C21_EntryFields ==
  Returned("parseHistory", "entry") =>
    /\ Len(parse.st.items) = 1
    /\ parse.st.items[1].changesetId = TheLine(parse.src, "id").id
    /\ parse.st.items[1].author = TheLine(parse.src, "user").file
    /\ parse.st.items[1].comment = TheLine(parse.src, "comment").file
    /\ parse.st.items[1].files = PairsOf(parse.src)

(***************************************************************************)
(* toLocalPath taken alone                                                 *)
(***************************************************************************)
\* server and local paths handed to toLocalPath
PathSamples ==
  { "$/Proj/a.cs", "$/Proj/sub/b.cs", "$/Proj", "$/Other/c.cs", "C:\\ws\\a.cs",
    "D:\\lib\\e.cs", "rel/d.cs", "$/Proj/a;Cx", "$/Proj/x;C5", "C:\\ws\\notes;c12",
    "$/Proj/sub dir/f.cs", "$/proj/g.cs", "$/Proj2/a.cs", "$/Proj/2/a.cs",
    "$/Proj/Other/c.cs" }

SuffixIds == {1, 42, 105}

\* toLocalPath is called on p with a changeset suffix and on p itself
CallToLocalPath ==
  /\ parse.fn = "none"
  /\ \E p \in PathSamples, n \in SuffixIds :
       parse' = [parse EXCEPT !.fn = "toLocalPath", !.family = "path",
                              !.src = << [Line("path", p) EXCEPT !.id = n] >>,
                              !.todo = << p \o ";C" \o NatToStr(n), p >>,
                              !.st = [items |-> << >>], !.done = FALSE]
  /\ UNCHANGED << config, proc >>

\* one call of toLocalPath returns
ToLocalPathStep ==
  /\ parsing /\ parse.fn = "toLocalPath" /\ parse.todo # << >>
  /\ parse' = [parse EXCEPT
                 !.st.items = Append(@, toLocalPathIn(cwd, config.serverPath, Head(parse.todo))),
                 !.todo = Tail(parse.todo)]
  /\ UNCHANGED << config, proc >>

NextPath == CallToLocalPath \/ ToLocalPathStep \/ EndParse

SpecPath == InitParse /\ [][NextPath]_vars

\* server paths without a changeset suffix
ServerSamples == {p \in PathSamples : StartsWith(p, "$/") /\ stripChangeset(p) = p}

\* toLocalPath is called on two different server paths
CallToLocalPathPair ==
  /\ parse.fn = "none"
  /\ \E p \in ServerSamples : \E q \in ServerSamples \ {p} :
       parse' = [parse EXCEPT !.fn = "toLocalPath", !.family = "pair",
                              !.src = << Line("path", p), Line("path", q) >>,
                              !.todo = << p, q >>,
                              !.st = [items |-> << >>], !.done = FALSE]
  /\ UNCHANGED << config, proc >>

NextPair == CallToLocalPathPair \/ ToLocalPathStep \/ EndParse

SpecPair == InitParse /\ [][NextPair]_vars

\* a server path is the root or lies beneath it
UnderRoot(path, root) == path = root \/ StartsWith(path, root \o "/")

\* the working directory joined with a relative path that has no dot segments
Joined(dir, rel) == IF rel = "" THEN dir ELSE dir \o "\\" \o forwardToBack(rel)

\* the local path the four forms stand for
LocalOf(path) ==
  LET root == config.serverPath
  IN IF IsLetter(At(path, 1)) /\ Sub(path, 2, 3) = ":\\" THEN path
     ELSE IF root # "" /\ UnderRoot(path, root) THEN Joined(cwd, From(path, Len(root) + 2))
     ELSE IF StartsWith(path, "$/") THEN Joined(cwd, From(path, 3))
     ELSE Joined(cwd, path)

\* C22: toLocalPath returns a local absolute path unchanged apart from the
\* stripped suffix, maps a path under the configured server root to the working
\* directory joined with the remainder after the root, maps any other $/ path to
\* the working directory joined with the path minus $/, and treats every other
\* form as relative to the working directory.
C22_FourForms ==
  Returned("toLocalPath", "path") =>
    parse.st.items[2] = LocalOf(stripChangeset(parse.src[1].text))

\* C27: a server path is mapped through the configured root only when it is the
\* root or lies beneath it, a path that only shares the root as a string prefix
\* is mapped as any other $/ path, and two different server paths never map to
\* the same local path.
C27_RootBoundary ==
  Returned("toLocalPath", "pair") =>
    /\ \A i \in 1..2 :
         ~UnderRoot(parse.src[i].text, config.serverPath) =>
           parse.st.items[i] = Joined(cwd, From(parse.src[i].text, 3))
    /\ parse.st.items[1] # parse.st.items[2]

\* C14: for every path p and changeset id n, toLocalPath of p followed by ";C"
\* and n equals toLocalPath of p.
C14_SuffixIgnored ==
  Returned("toLocalPath", "path") => parse.st.items[1] = parse.st.items[2]

(***************************************************************************)
(* Properties of checkIn and of the workspace resolver                     *)
(***************************************************************************)
AddArgs == << "add", ".", "/recursive", "/noprompt" >>

\* positions in the record of the call where the operation's own command cmd was launched
OwnLaunches(cmd) ==
  {i \in 1..Len(hist.calls) : hist.calls[i].by = "own" /\ hist.calls[i].args[1] = cmd}

\* the checkin command line for the arguments of the call
CheckinShape(args) ==
  LET comment == "/comment:" \o hist.call.comment
  IN IF hist.call.files # << >>
       THEN /\ args = << "checkin" >> \o hist.call.files \o << comment, "/noprompt" >>
            /\ ~HasArg(args, ".") /\ ~HasArg(args, "/recursive")
       ELSE args = << "checkin", ".", "/recursive", comment, "/noprompt" >>

\* the resolver gave up at its command j: the creation of the workspace failed,
\* or the mapping that follows it did
ResolverGaveUp(j) ==
  /\ j \in 1..Len(hist.calls)
  /\ hist.calls[j].by = "resolver" /\ hist.calls[j].status = "fail"
  /\ \/ hist.calls[j].args[1] = "workspace"
     \/ /\ hist.calls[j].args[1] = "workfold" /\ Len(hist.calls[j].args) > 1
        /\ j > 1 /\ hist.calls[j - 1].args[1] = "workspace"

WrapPrefix == "Cannot configure TFVC workspace: "

\* C16 as amended: checkIn calls run() for the auto-add and then run() for the
\* checkin.  Each run() first invokes the resolver and launches its command only
\* if the resolver does not give up.  Whatever the first run() throws is
\* swallowed, so the checkin's run() always starts; the checkin is launched after
\* the auto-add, or without any auto-add when the resolver gave up in the first
\* run() and not in the second.  The operation ends with the outcome of the
\* checkin or with the resolver's wrapped error from the second run(), never with
\* an error of the auto-add.  With a file subset the checkin names exactly those
\* files, without "." and /recursive, and the comment is one argument.
C16_AddThenCheckin ==
  hist.op = "checkIn" =>
    LET n == Len(hist.calls)
        adds == OwnLaunches("add")
        checkins == OwnLaunches("checkin")
        earlier(i) == \E j \in 1..(i - 1) : j \in adds \/ ResolverGaveUp(j)
    IN /\ Cardinality(adds) <= 1 /\ Cardinality(checkins) <= 1
       /\ \A j \in adds : hist.calls[j].args = AddArgs
       /\ \A i \in checkins : CheckinShape(hist.calls[i].args) /\ earlier(i)
       /\ hist.result.status # "none" =>
            \/ /\ n \in checkins
               /\ hist.calls[n].status = hist.result.status
            \/ /\ ResolverGaveUp(n) /\ earlier(n)
               /\ hist.result.status = "fail"
               /\ StartsWith(hist.result.error, WrapPrefix)

\* C16 witness: the auto-add failed and the checkin of the chosen file was
\* launched after it
C16_Witness ==
  /\ hist.op = "checkIn" /\ hist.call.files # << >>
  /\ \E j \in OwnLaunches("add") : hist.calls[j].status = "fail"
  /\ \E i \in OwnLaunches("checkin") : hist.calls[i].status = "ok"
  /\ hist.result.status = "ok"

\* C16 as stated: checkIn launches the auto-add first and the checkin after it,
\* the checkin is launched whether or not the auto-add failed, and with a file
\* subset the checkin names exactly those files, the comment being one argument.
C16_Original ==
  hist.op = "checkIn" =>
    /\ \A i \in OwnLaunches("checkin") :
         /\ \E j \in OwnLaunches("add") : j < i /\ hist.calls[j].args = AddArgs
         /\ CheckinShape(hist.calls[i].args)
    /\ hist.result.status # "none" => OwnLaunches("checkin") # {}

\* the mapping query and the mapping command of the resolver
QueryArgs == << "workfold" >>
IsMapping(args) == args[1] = "workfold" /\ Len(args) > 1
IsCreation(args) == args[1] = "workspace"

\* C17: when the mapping query shows the working directory or the workspace
\* name, the resolver issues no mapping and no workspace-creation command: the
\* next command is the operation's own.  When the query shows neither and the
\* mapping attempt succeeds, no workspace-creation command is issued.
C17_NoNeedlessCommands ==
  LET n == Len(hist.calls)
      out == settled.exits[Len(settled.exits)].stdout
      shown == Includes(out, cwd) \/ Includes(out, config.workspace)
  IN /\ (settled.args = QueryArgs /\ settled.ok) =>
          /\ n >= 2 /\ hist.calls[n - 1].args = QueryArgs /\ hist.calls[n - 1].status = "ok"
          /\ IF shown THEN hist.calls[n].by = "own"
                      ELSE hist.calls[n].by = "resolver" /\ IsMapping(hist.calls[n].args)
     /\ \A i \in 2..n :
          (/\ hist.calls[i].by = "resolver" /\ IsMapping(hist.calls[i].args)
           /\ hist.calls[i].status = "ok" /\ hist.calls[i - 1].args = QueryArgs) =>
            /\ hist.calls[i - 1].status = "ok"
            /\ i < n => hist.calls[i + 1].by = "own"
     /\ \A i \in 1..n :
          (hist.calls[i].by = "resolver" /\ IsCreation(hist.calls[i].args)) =>
            /\ i > 1 /\ hist.calls[i - 1].by = "resolver" /\ hist.calls[i - 1].status = "fail"
            /\ hist.calls[i - 1].args = QueryArgs \/ IsMapping(hist.calls[i - 1].args)

\* C17 witness: in the first run() of checkIn the folder was unmapped and the
\* mapping succeeded, so the add followed at once; in the second the query named
\* the workspace and the checkin followed at once
C17_Witness ==
  /\ hist.op = "checkIn" /\ Len(hist.calls) = 5
  /\ hist.calls[1].args = QueryArgs /\ hist.calls[1].status = "ok"
  /\ IsMapping(hist.calls[2].args) /\ hist.calls[2].status = "ok"
  /\ hist.calls[3].args = AddArgs
  /\ settled.args = QueryArgs /\ settled.ok
  /\ Includes(settled.exits[Len(settled.exits)].stdout, config.workspace)
  /\ hist.calls[5].by = "own" /\ hist.calls[5].args[1] = "checkin"

\* operations that catch what run() throws and return normally
Catching == {"pendingChanges", "resolve", "getPreviousChangesetIdForFile"}

\* C18 as amended: when the fallback of the resolver fails at the creation of
\* the workspace or at the mapping after it, that run() launches no command of
\* the operation and throws one error "Cannot configure TFVC workspace: "
\* followed by the error of the step that failed last.  The operation fails with
\* that error unless it catches it: pendingChanges, resolve and
\* getPreviousChangesetIdForFile return normally (an empty or absent result),
\* and checkIn, whose auto-add is the run() that threw, goes on to a new run()
\* for the checkin, which starts with the resolver again.
C18_WrappedError ==
  LET n == Len(hist.calls)
  IN \A j \in 1..n : ResolverGaveUp(j) =>
       IF j < n
         THEN /\ hist.calls[j + 1].by = "resolver" /\ hist.calls[j + 1].args = QueryArgs
              /\ hist.op = "checkIn" /\ \A i \in 1..j : hist.calls[i].by = "resolver"
         ELSE /\ settled.args = hist.calls[n].args /\ ~settled.ok
              /\ IF hist.op \in Catching
                   THEN hist.result = okResult(<< >>)
                   ELSE /\ hist.result.status = "fail"
                        /\ hist.result.error = WrapPrefix \o "Error: " \o settled.message

\* C18 witness: getLatest found the folder unmapped, the mapping failed, the
\* workspace was created and the mapping failed again; getLatest failed with the
\* wrapped error of that last mapping and never launched tf get
C18_Witness ==
  /\ hist.op = "getLatest" /\ Len(hist.calls) = 4
  /\ hist.calls[1].args = QueryArgs /\ hist.calls[1].status = "ok"
  /\ IsMapping(hist.calls[2].args) /\ hist.calls[2].status = "fail"
  /\ IsCreation(hist.calls[3].args) /\ hist.calls[3].status = "ok"
  /\ ResolverGaveUp(4) /\ IsMapping(hist.calls[4].args)
  /\ hist.result.status = "fail"
  /\ hist.result.error = WrapPrefix \o "Error: " \o settled.message

\* C18 as stated: once the fallback of the resolver has failed, the operation
\* launches no command of its own and ends failed with the wrapped error.
C18_Original ==
  \A j \in 1..Len(hist.calls) : ResolverGaveUp(j) =>
    /\ \A i \in (j + 1)..Len(hist.calls) : hist.calls[i].by # "own"
    /\ hist.result.status # "none" =>
         hist.result.status = "fail" /\ StartsWith(hist.result.error, WrapPrefix)


(***************************************************************************)
(* Properties of the changeset panel's operations                          *)
(***************************************************************************)
\* the parsed entries of the history command that getPreviousChangesetIdForFile ran
EntriesRead == parseHistory(settled.exits[Len(settled.exits)].stdout)

\* the ids below currentId of the entries that list the file among their items
LowerIdsOf(entries, file, currentId) ==
  {entries[i].changesetId : i \in {k \in 1..Len(entries) :
     /\ entries[k].changesetId < currentId
     /\ \E f \in 1..Len(entries[k].files) :
          toLowerCase(entries[k].files[f].path) = toLowerCase(file)}}

PreviousReturned == hist.op = "getPreviousChangesetIdForFile" /\ hist.result # NoResult

\* C23: getPreviousChangesetIdForFile(file, currentId) never raises; what it returns is
\* absent or the greatest id below currentId among the returned entries that touch the
\* file, and never an id greater than or equal to currentId
C23_PreviousBelow ==
  PreviousReturned =>
    /\ hist.result.status = "ok"
    /\ hist.result.value # << >> =>
         /\ hist.result.value[1] < hist.call.id
         /\ settled.ok
         /\ LowerIdsOf(EntriesRead, hist.call.target, hist.call.id) # {}
         /\ hist.result.value[1] = Max(LowerIdsOf(EntriesRead, hist.call.target, hist.call.id))

\* C24: one public operation triggers at most one interactive sign-in, the sign-ins of
\* the resolver's commands and of the operation's own command counted together
C24_OneSignIn == hist.op # "none" => hist.signIns <= 1

\* C25: the resolver launches the workspace-creation command only after a mapping
\* attempt of the same call has failed; a failed mapping query alone never leads to it
C25_CreationAfterMapping ==
  \A j \in 1..Len(hist.calls) :
    (hist.calls[j].by = "resolver" /\ IsCreation(hist.calls[j].args)) =>
      /\ j > 1
      /\ hist.calls[j - 1].by = "resolver"
      /\ IsMapping(hist.calls[j - 1].args)
      /\ hist.calls[j - 1].status = "fail"

\* the slots in which getFileAtChangeset is in flight
Viewing == {p \in Procs : proc[p].op = "getFileAtChangeset"}

\* C26: getFileAtChangeset gives distinct (file, changeset id) pairs distinct temporary
\* files: two requests for different files never write to or return the same file
C26_DistinctTempFiles ==
  \A p \in Viewing : \A q \in Viewing :
    << proc[p].call.target, proc[p].call.id >> # << proc[q].call.target, proc[q].call.id >>
      => tmpFileOf(proc[p].call.target, proc[p].call.id)
           # tmpFileOf(proc[q].call.target, proc[q].call.id)

(***************************************************************************)
(* Properties of the executor's sign-in and of termination                 *)
(***************************************************************************)
\* the executor call e went on after its sign-in command failed: one retry of the
\* original command follows the sign-in window
RetriedOnce(e) ==
  /\ Len(e.launches) = 3
  /\ e.launches[1] = execOnce(e.args)
  /\ e.launches[2] = execVisibleOnce(signInArgs)
  /\ e.launches[3] = execOnce(e.args)

\* C29: with a server URL configured, a failure of the sign-in command never aborts the
\* executor call: the original command is retried exactly once and the retry's outcome
\* is the call's outcome
C29_SignInFailureSwallowed ==
  /\ running.signIn = "fail" =>
       /\ config.serverUrl # ""
       /\ RetriedOnce(running)
       /\ proc[Observed].ex = "Retrying"
  /\ settled.signIn = "fail" =>
       LET last == settled.exits[Len(settled.exits)]
       IN /\ config.serverUrl # ""
          /\ RetriedOnce(settled)
          /\ Len(settled.exits) = 2
          /\ settled.trace = RetryTrace(IF last.ok THEN "Succeeded" ELSE "Failed")
          /\ settled.ok = last.ok
          /\ settled.message = (IF last.ok THEN "" ELSE failureMessage(settled.args, last))

\* the sign-in command failed and the retry that followed succeeded
C29_Witness ==
  /\ settled.signIn = "fail" /\ settled.ok
  /\ hist.result.status = "ok"

\* an operation of the observed call is under way
Busy == proc[Observed].op # "none"

\* the calls j..k are commands of one resolver run: all the resolver's, and none after
\* the first is the mapping query a run begins with
ResolverRun(j, k) ==
  /\ \A i \in j..k : hist.calls[i].by = "resolver"
  /\ \A i \in (j + 1)..k : hist.calls[i].args # QueryArgs

LaunchesWithinLimits ==
  /\ Len(running.launches) <= 3
  /\ Len(settled.launches) <= 3
  /\ \A j \in 1..Len(hist.calls) : j + 4 <= Len(hist.calls) => ~ResolverRun(j, j + 4)
  /\ Len(hist.calls) <= 2 * (4 + 1)

\* C28: provided every launched child exits, every public operation completes after a
\* bounded number of launches: at most three per executor call (attempt, sign-in,
\* retry), at most four commands per resolver run, and no loop on repeated failure
C28_Terminates == [](LaunchesWithinLimits) /\ (Busy ~> ~Busy)

\* checkIn completed after two full resolver runs and a sign-in in its last command
C28_Witness ==
  /\ hist.op = "checkIn" /\ ~Busy /\ hist.result.status # "none"
  /\ Len(hist.calls) = 2 * (4 + 1)
  /\ ResolverRun(1, 4) /\ ResolverRun(6, 9)
  /\ Len(settled.launches) = 3

(***************************************************************************)
(* Properties of the vstfs.checkIn command                                 *)
(***************************************************************************)
\* the add and checkin commands among the recorded commands of a call
Commits(calls) == {i \in 1..Len(calls) : calls[i].args[1] \in {"add", "checkin"}}

\* every element of the sequence a is an element of the sequence b
Among(a, b) == \A i \in 1..Len(a) : \E k \in 1..Len(b) : a[i] = b[k]

\* one step of the vstfs.checkIn handler, s before and t after
CheckInStep(s, t) ==
  /\ (t.hstep = "showQuickPick" /\ s.hstep # "showQuickPick") =>
       /\ s.handler = "vstfs.checkIn" /\ s.op = "pendingChanges"
       /\ t.h.result.status = "ok" /\ t.h.result.value # << >>
       /\ t.hdata = t.h.result.value
  /\ (t.hstep = "confirm" /\ s.hstep # "confirm") =>
       /\ s.hstep = "showQuickPick"
       /\ Len(t.hdata) >= 1 /\ Among(t.hdata, s.hdata)
  /\ (t.hstep = "showInputBox" /\ s.hstep # "showInputBox") =>
       /\ s.hstep = "confirm"
       /\ t.hdata = s.hdata
  /\ (t.handler = "vstfs.checkIn" /\ t.op = "checkIn" /\ s.op # "checkIn") =>
       /\ s.hstep = "showInputBox"
       /\ Len(s.hdata) >= 1
       /\ t.call.files = filesOfItems(s.hdata)
  /\ (t.handler = "vstfs.checkIn" /\ Commits(t.h.calls) # {}) =>
       /\ t.h.op = "checkIn"
       /\ s.hstep \in {"showInputBox", "checkIn"}
  /\ (s.hstep \in {"showQuickPick", "confirm", "showInputBox"} /\ t.handler # "vstfs.checkIn") =>
       t = Idle

\* C30: vstfs.checkIn launches the add and checkin commands only after the pending
\* changes came back non-empty, the user selected at least one file, confirmed and
\* submitted the comment box (an empty comment is accepted); cancelling at any of these
\* steps launches nothing, and the files passed to checkIn are exactly the selected ones
C30_CheckInGuarded == [][CheckInStep(proc[Observed], proc'[Observed])]_vars

\* the handler's checkin command runs with the selected file and an empty comment
C30_Witness ==
  /\ proc[Observed].handler = "vstfs.checkIn" /\ hist.op = "checkIn"
  /\ hist.call.comment = "" /\ Len(hist.call.files) >= 1
  /\ \E i \in Commits(hist.calls) :
       hist.calls[i].args = << "checkin" >> \o hist.call.files \o << "/comment:", "/noprompt" >>

====
